---- MODULE Spec2Model ----
(***************************************************************************)
(* WorkTimeTaskLogger: the capture-to-storage pipeline.                    *)
(*                                                                         *)
(*   - the Entry Store (src/storage/database.ts): rows of time_entries,    *)
(*     insertTimeEntry, updatePreviousEntryDuration, updateEntryAnalysis,  *)
(*     setManualProject, getTimeEntries, getDailySummary,                  *)
(*     deleteOldEntries;                                                   *)
(*   - the Sampler (src/index.ts captureAndAnalyze), one invocation per    *)
(*     timer tick, suspended at each await, several invocations possibly   *)
(*     in flight at once because setInterval does not wait for the         *)
(*     previous callback's promise;                                        *)
(*   - the Classifier Gateway (src/agent.ts analyzeTask), step by step,    *)
(*     and its batch mode (batchAnalyzeTasks);                             *)
(*   - the Aggregator (getDailySummary, src/reports/weekly.ts) and the     *)
(*     store's exported functions applied directly to a store.             *)
(*                                                                         *)
(* Nullable values are encoded as sequences: Null is << >>, a present      *)
(* value x is <<x>>.  JavaScript strings that the code inspects character  *)
(* by character (app names) are sequences of one-character strings.        *)
(* Times are milliseconds since the epoch.                                 *)
(***************************************************************************)
EXTENDS Integers, Sequences, FiniteSets, TLC

(***************************************************************************)
(* Bounds of the model.                                                    *)
(***************************************************************************)
\* number of timer ticks (captureAndAnalyze invocations) explored
MaxTicks == 3
\* number of captureAndAnalyze invocations that may be in flight at once
MaxOverlap == 2
\* number of manual project assignments explored
MaxManualEdits == 1
\* number of rows inserted into the store under direct use
MaxRows == 2
\* number of entries handed to batchAnalyzeTasks
MaxBatch == 7
\* the calendar weeks from which getWeekStart is given instants
ProbeWeeks == 2
\* number of idle checks one watcher begins
MaxChecks == 5
\* number of start() and stop() calls made on one watcher
MaxWatcherCalls == 3
\* number of tracker processes begun with the start command
MaxProcs == 2
\* number of stop commands and signals
MaxCommands == 2

(***************************************************************************)
(* Program constants.                                                      *)
(***************************************************************************)
captureIntervalMinutes == 5
idleThresholdSeconds == 300
MsPerSecond == 1000
MsPerMinute == 60000
MsPerHour == 3600000
MsPerDay == 86400000
\* confidence values are kept in hundredths: 0.3 is 30, 0.5 is 50
FallbackConfidence == 30
DefaultConfidence == 50

Null == << >>
Some(x) == <<x>>
IsNull(v) == v = << >>
Value(v) == v[1]

(***************************************************************************)
(* Strings as character sequences: toLowerCase and includes.               *)
(***************************************************************************)
UpperChars ==
    <<"A", "B", "C", "D", "E", "F", "G", "H", "I", "J", "K", "L", "M",
      "N", "O", "P", "Q", "R", "S", "T", "U", "V", "W", "X", "Y", "Z">>
LowerChars ==
    <<"a", "b", "c", "d", "e", "f", "g", "h", "i", "j", "k", "l", "m",
      "n", "o", "p", "q", "r", "s", "t", "u", "v", "w", "x", "y", "z">>

LowerChar(ch) ==
    IF \E i \in 1..26 : UpperChars[i] = ch
    THEN LowerChars[CHOOSE i \in 1..26 : UpperChars[i] = ch]
    ELSE ch

toLowerCase(s) == [i \in 1..Len(s) |-> LowerChar(s[i])]

includes(s, sub) ==
    \E i \in 0..(Len(s) - Len(sub)) : SubSeq(s, i + 1, i + Len(sub)) = sub

(***************************************************************************)
(* Date.toISOString / new Date(iso): the TEXT stored in the timestamp      *)
(* column.  The ISO text YYYY-MM-DDTHH:mm:ss.sssZ is a list of fixed-width *)
(* zero-padded fields, most significant first; it is kept here as the      *)
(* tuple <<day, hour, minute, second, millisecond>> (day = the calendar    *)
(* date as a day number), and SQLite's text comparison of two such         *)
(* strings is the lexicographic comparison of the tuples.                  *)
(***************************************************************************)
toISOString(ms) ==
    << ms \div MsPerDay,
       (ms % MsPerDay) \div MsPerHour,
       (ms % MsPerHour) \div MsPerMinute,
       (ms % MsPerMinute) \div MsPerSecond,
       ms % MsPerSecond >>

NewDate(iso) ==
    iso[1] * MsPerDay + iso[2] * MsPerHour + iso[3] * MsPerMinute
      + iso[4] * MsPerSecond + iso[5]

RECURSIVE TextLessFrom(_, _, _)
TextLessFrom(a, b, i) ==
    IF i > Len(a) THEN FALSE
    ELSE IF a[i] < b[i] THEN TRUE
    ELSE IF a[i] > b[i] THEN FALSE
    ELSE TextLessFrom(a, b, i + 1)

TextLess(a, b) == TextLessFrom(a, b, 1)
TextLeq(a, b) == a = b \/ TextLess(a, b)

(***************************************************************************)
(* Environment: windows the probe can report, the exclusion list.          *)
(***************************************************************************)
AppCode == <<"C", "o", "d", "e">>
AppFinder == <<"F", "i", "n", "d", "e", "r">>

WindowInfos ==
    { [appName |-> AppCode, title |-> "main.ts"],
      [appName |-> AppFinder, title |-> "Downloads"] }

\* config.excludedApps as the user typed it (config exclude FIND)
excludedApps == << <<"F", "I", "N", "D">> >>

\* readings of the idle-seconds probe
IdleReadings == {0, idleThresholdSeconds}
\* milliseconds by which a timer tick is late
Jitters == {400}
\* project ids the user can assign by hand
ManualProjects == {"p1"}

(***************************************************************************)
(* src/capture/window.ts                                                   *)
(***************************************************************************)
\* the comparison without lower-casing the exclusion-list entry
shouldExcludeWindowCaseSensitive(windowInfo, excluded) ==
    LET appNameLower == toLowerCase(windowInfo.appName)
    IN \E k \in 1..Len(excluded) : includes(appNameLower, excluded[k])

shouldExcludeWindow(windowInfo, excluded) ==
    LET appNameLower == toLowerCase(windowInfo.appName)
    IN \E k \in 1..Len(excluded) :
          includes(appNameLower, toLowerCase(excluded[k]))

BrowserKeywords ==
    { <<"c", "h", "r", "o", "m", "e">>,
      <<"f", "i", "r", "e", "f", "o", "x">>,
      <<"s", "a", "f", "a", "r", "i">>,
      <<"e", "d", "g", "e">>,
      <<"b", "r", "a", "v", "e">>,
      <<"a", "r", "c">> }

EditorKeywords ==
    { <<"c", "o", "d", "e">>,
      <<"s", "u", "b", "l", "i", "m", "e">>,
      <<"a", "t", "o", "m">>,
      <<"v", "i", "m">>,
      <<"n", "v", "i", "m">>,
      <<"e", "m", "a", "c", "s">>,
      <<"x", "c", "o", "d", "e">>,
      <<"i", "n", "t", "e", "l", "l", "i", "j">>,
      <<"w", "e", "b", "s", "t", "o", "r", "m">>,
      <<"p", "y", "c", "h", "a", "r", "m">>,
      <<"c", "u", "r", "s", "o", "r">> }

TerminalKeywords ==
    { <<"t", "e", "r", "m", "i", "n", "a", "l">>,
      <<"i", "t", "e", "r", "m">>,
      <<"w", "a", "r", "p">>,
      <<"k", "i", "t", "t", "y">>,
      <<"a", "l", "a", "c", "r", "i", "t", "t", "y">>,
      <<"h", "y", "p", "e", "r">> }

CommunicationKeywords ==
    { <<"s", "l", "a", "c", "k">>,
      <<"d", "i", "s", "c", "o", "r", "d">>,
      <<"t", "e", "a", "m", "s">>,
      <<"z", "o", "o", "m">>,
      <<"m", "e", "e", "t">>,
      <<"m", "a", "i", "l">>,
      <<"o", "u", "t", "l", "o", "o", "k">>,
      <<"m", "e", "s", "s", "a", "g", "e", "s">> }

DesignKeywords ==
    { <<"f", "i", "g", "m", "a">>,
      <<"s", "k", "e", "t", "c", "h">>,
      <<"p", "h", "o", "t", "o", "s", "h", "o", "p">>,
      <<"i", "l", "l", "u", "s", "t", "r", "a", "t", "o", "r">>,
      <<"a", "f", "f", "i", "n", "i", "t", "y">>,
      <<"c", "a", "n", "v", "a">> }

categorizeApp(appName) ==
    LET name == toLowerCase(appName)
    IN IF \E w \in BrowserKeywords : includes(name, w) THEN "browser"
       ELSE IF \E w \in EditorKeywords : includes(name, w) THEN "editor"
       ELSE IF \E w \in TerminalKeywords : includes(name, w) THEN "terminal"
       ELSE IF \E w \in CommunicationKeywords : includes(name, w)
            THEN "communication"
       ELSE IF \E w \in DesignKeywords : includes(name, w) THEN "design"
       ELSE "other"

(***************************************************************************)
(* src/agent.ts: the pure part of the Classifier Gateway.                  *)
(*                                                                         *)
(* A backend's raw text is a sequence of tokens: LBrace, RBrace, a JSON    *)
(* member <<key, value>> (value nullable; JSON null is Null) or Prose.     *)
(***************************************************************************)
LBrace == <<"{">>
RBrace == <<"}">>
Prose == <<"text">>
Member(key, v) == <<key, v>>
IsMember(tok) == Len(tok) = 2

validCategories ==
    { "coding", "communication", "research", "documentation", "meeting",
      "design", "admin", "break", "other" }

\* validateCategory(category?: string): category is Null when undefined/null
validateCategory(category) ==
    IF ~IsNull(category) /\ Value(category) \in validCategories
    THEN Value(category)
    ELSE "other"

\* own properties of the categoryMap object literal in createFallbackAnalysis
categoryMapOwnKeys ==
    { "browser", "editor", "terminal", "communication", "design", "other" }

categoryMapOwn(key) ==
    CASE key = "browser" -> "research"
      [] key = "editor" -> "coding"
      [] key = "terminal" -> "coding"
      [] key = "communication" -> "communication"
      [] key = "design" -> "design"
      [] key = "other" -> "other"

\* properties every object literal inherits from Object.prototype
ObjectPrototypeKeys ==
    { "constructor", "toString", "toLocaleString", "valueOf",
      "hasOwnProperty", "isPrototypeOf", "propertyIsEnumerable",
      "__proto__" }

\* categoryMap[appCategory]: property lookup on an object literal; an own
\* property first, then the prototype chain, else undefined (Null)
categoryMapGet(appCategory) ==
    IF appCategory \in categoryMapOwnKeys
    THEN Some(categoryMapOwn(appCategory))
    ELSE IF appCategory \in ObjectPrototypeKeys
         THEN Some("Object.prototype." \o appCategory)
         ELSE Null

createFallbackAnalysis(windowInfo, appCategory) ==
    LET found == categoryMapGet(appCategory)
    IN [ taskDescription |-> <<"Working in ", windowInfo.appName>>,
         suggestedProjectId |-> Null,
         confidence |-> FallbackConfidence,
         category |-> IF IsNull(found) THEN "other" ELSE Value(found),
         notes |-> Some("Fallback analysis - AI unavailable") ]

\* result.match(/\{[\s\S]*?\}/): the first LBrace and, lazily, the first
\* RBrace after it; << >> when there is no match
jsonMatch(result) ==
    IF \E i \in 1..Len(result) :
          result[i] = LBrace /\ \E j \in (i + 1)..Len(result) : result[j] = RBrace
    THEN LET i == CHOOSE a \in 1..Len(result) :
                     /\ result[a] = LBrace
                     /\ \A b \in 1..(a - 1) : result[b] # LBrace
             j == CHOOSE a \in (i + 1)..Len(result) :
                     /\ result[a] = RBrace
                     /\ \A b \in (i + 1)..(a - 1) : result[b] # RBrace
         IN SubSeq(result, i, j)
    ELSE << >>

\* JSON.parse accepts the matched text when everything between the braces
\* is a member
JSONparseOk(text) ==
    /\ Len(text) >= 2
    /\ text[1] = LBrace
    /\ text[Len(text)] = RBrace
    /\ \A k \in 2..(Len(text) - 1) : IsMember(text[k])

\* parsed[key]: the last member with that key wins; Null when absent or null
JSONget(text, key) ==
    IF \E k \in 2..(Len(text) - 1) : text[k][1] = key
    THEN LET k == CHOOSE a \in 2..(Len(text) - 1) :
                     /\ text[a][1] = key
                     /\ \A b \in (a + 1)..(Len(text) - 1) : text[b][1] # key
         IN text[k][2]
    ELSE Null

parseAnalysisResult(result, windowInfo, appCategory) ==
    LET m == jsonMatch(result)
    IN IF m # << >> /\ JSONparseOk(m)
       THEN [ taskDescription |->
                 IF IsNull(JSONget(m, "taskDescription"))
                 THEN <<"Unknown activity">>
                 ELSE <<Value(JSONget(m, "taskDescription"))>>,
              suggestedProjectId |-> JSONget(m, "suggestedProjectId"),
              confidence |->
                 IF IsNull(JSONget(m, "confidence"))
                 THEN DefaultConfidence
                 ELSE Value(JSONget(m, "confidence")),
              category |-> validateCategory(JSONget(m, "category")),
              notes |-> JSONget(m, "notes") ]
       ELSE createFallbackAnalysis(windowInfo, appCategory)

\* JSON.stringify(analysis): the text stored in ai_analysis
JSONstringify(analysis) ==
    << LBrace,
       Member("taskDescription", Some(analysis.taskDescription)),
       Member("suggestedProjectId", analysis.suggestedProjectId),
       Member("confidence", Some(analysis.confidence)),
       Member("category", Some(analysis.category)),
       Member("notes", analysis.notes),
       RBrace >>

(***************************************************************************)
(* src/storage/database.ts: the time_entries table as the sequence of its  *)
(* rows in rowid order.                                                    *)
(***************************************************************************)
\* INSERT INTO time_entries ...; id INTEGER PRIMARY KEY AUTOINCREMENT
insertTimeEntry(rows, id, entry) ==
    Append(rows,
           [ id |-> id,
             timestamp |-> toISOString(entry.timestamp),
             appName |-> entry.appName,
             windowTitle |-> entry.windowTitle,
             screenshotPath |-> entry.screenshotPath,
             taskDescription |-> entry.taskDescription,
             projectId |-> entry.projectId,
             manualProjectId |-> entry.manualProjectId,
             durationSeconds |-> entry.durationSeconds,
             isIdle |-> entry.isIdle,
             aiAnalysis |-> entry.aiAnalysis ])

\* SELECT id, timestamp FROM time_entries ORDER BY timestamp DESC LIMIT 1:
\* the rows this query may return (any row of greatest timestamp text)
LastEntryCandidates(rows) ==
    { i \in 1..Len(rows) :
        \A j \in 1..Len(rows) : TextLeq(rows[j].timestamp, rows[i].timestamp) }

\* the difference rounded to the nearest second instead of floored
DurationSecondsRounded(currentMs, lastMs) ==
    (currentMs - lastMs + 500) \div MsPerSecond

\* Math.floor((currentTimestamp.getTime() - lastTime.getTime()) / 1000)
DurationSeconds(currentMs, lastMs) == (currentMs - lastMs) \div MsPerSecond

\* UPDATE time_entries SET duration_seconds = ? WHERE id = ?
SetDuration(rows, id, seconds) ==
    [ k \in 1..Len(rows) |->
        IF rows[k].id = id
        THEN [rows[k] EXCEPT !.durationSeconds = Some(seconds)]
        ELSE rows[k] ]

\* a back-fill that also stamps the closed row with the current time
updatePreviousEntryDurationTouching(rows, currentMs, i) ==
    IF i = 0
    THEN rows
    ELSE [ k \in 1..Len(rows) |->
             IF rows[k].id = rows[i].id
             THEN [rows[k] EXCEPT
                     !.durationSeconds =
                        Some(DurationSeconds(currentMs, NewDate(rows[i].timestamp))),
                     !.timestamp = toISOString(currentMs)]
             ELSE rows[k] ]

\* updatePreviousEntryDuration(currentTimestamp), the SELECT having
\* returned row i (no row: no change)
updatePreviousEntryDuration(rows, currentMs, i) ==
    IF i = 0
    THEN rows
    ELSE SetDuration(rows, rows[i].id,
                     DurationSeconds(currentMs, NewDate(rows[i].timestamp)))

\* an update that creates the entry when no row has the id
updateEntryAnalysisUpserting(rows, entryId, taskDescription, projectId, aiAnalysis) ==
    IF \E k \in 1..Len(rows) : rows[k].id = entryId
    THEN [ k \in 1..Len(rows) |->
             IF rows[k].id = entryId
             THEN [rows[k] EXCEPT !.taskDescription = Some(taskDescription),
                                  !.projectId = projectId,
                                  !.aiAnalysis = Some(aiAnalysis)]
             ELSE rows[k] ]
    ELSE Append(rows,
                [ id |-> entryId, timestamp |-> toISOString(0),
                  appName |-> << >>, windowTitle |-> "",
                  screenshotPath |-> Null,
                  taskDescription |-> Some(taskDescription),
                  projectId |-> projectId, manualProjectId |-> Null,
                  durationSeconds |-> Null, isIdle |-> FALSE,
                  aiAnalysis |-> Some(aiAnalysis) ])

\* UPDATE ... SET task_description = ?, project_id = ?, ai_analysis = ?
\* WHERE id = ?
updateEntryAnalysis(rows, entryId, taskDescription, projectId, aiAnalysis) ==
    [ k \in 1..Len(rows) |->
        IF rows[k].id = entryId
        THEN [rows[k] EXCEPT !.taskDescription = Some(taskDescription),
                             !.projectId = projectId,
                             !.aiAnalysis = Some(aiAnalysis)]
        ELSE rows[k] ]

\* UPDATE time_entries SET manual_project_id = ? WHERE id = ?
setManualProject(rows, entryId, projectId) ==
    [ k \in 1..Len(rows) |->
        IF rows[k].id = entryId
        THEN [rows[k] EXCEPT !.manualProjectId = Some(projectId)]
        ELSE rows[k] ]

\* rowToTimeEntry(row): the timestamp text becomes a Date again
rowToTimeEntry(row) == [row EXCEPT !.timestamp = NewDate(row.timestamp)]

\* a selection that also takes the rows stamped exactly endDate
SelectedRowsInclusiveEnd(rows, startMs, endMs, projectId) ==
    { k \in 1..Len(rows) :
        /\ TextLeq(toISOString(startMs), rows[k].timestamp)
        /\ TextLeq(rows[k].timestamp, toISOString(endMs))
        /\ \/ IsNull(projectId)
           \/ Value(projectId) = ""
           \/ rows[k].projectId = projectId
           \/ rows[k].manualProjectId = projectId }

\* WHERE timestamp >= ? AND timestamp < ?, and with a truthy projectId
\* AND (project_id = ? OR manual_project_id = ?): the row positions selected
SelectedRows(rows, startMs, endMs, projectId) ==
    { k \in 1..Len(rows) :
        /\ TextLeq(toISOString(startMs), rows[k].timestamp)
        /\ TextLess(rows[k].timestamp, toISOString(endMs))
        /\ \/ IsNull(projectId)
           \/ Value(projectId) = ""
           \/ rows[k].projectId = projectId
           \/ rows[k].manualProjectId = projectId }

\* ORDER BY timestamp ASC, read through idx_entries_timestamp: index
\* entries are kept in (timestamp, rowid) order
RECURSIVE OrderByTimestamp(_, _)
OrderByTimestamp(rows, ks) ==
    IF ks = {} THEN << >>
    ELSE LET k == CHOOSE a \in ks :
                     \A b \in ks \ {a} :
                        \/ TextLess(rows[a].timestamp, rows[b].timestamp)
                        \/ rows[a].timestamp = rows[b].timestamp /\ a < b
         IN <<rowToTimeEntry(rows[k])>> \o OrderByTimestamp(rows, ks \ {k})

\* getTimeEntries(startDate, endDate, projectId?); an omitted projectId is
\* Null
getTimeEntries(rows, startMs, endMs, projectId) ==
    OrderByTimestamp(rows, SelectedRows(rows, startMs, endMs, projectId))

\* DELETE FROM time_entries WHERE timestamp < ?, the cutoff being
\* retentionDays days before the current time
deleteOldEntries(rows, nowMs, retentionDays) ==
    SelectSeq(rows,
              LAMBDA row :
                 ~TextLess(row.timestamp,
                           toISOString(nowMs - retentionDays * MsPerDay)))

\* an open entry counted as one capture interval
DurationOrInterval(row) ==
    IF IsNull(row.durationSeconds) THEN captureIntervalMinutes * 60
    ELSE Value(row.durationSeconds)

\* entry.durationSeconds ?? 0
DurationOrZero(row) ==
    IF IsNull(row.durationSeconds) THEN 0 ELSE Value(row.durationSeconds)

\* a JavaScript Map from a key to { seconds, entries }, as the sequence of
\* its entries in insertion order
EmptyMap == << >>
MapHas(m, key) == \E i \in 1..Len(m) : m[i].key = key
MapGet(m, key) == m[CHOOSE i \in 1..Len(m) : m[i].key = key]

\* data = map.get(key) ?? { seconds: 0, entries: 0 };
\* data.seconds += duration; data.entries++; map.set(key, data)
MapAdd(m, key, duration) ==
    IF MapHas(m, key)
    THEN [ i \in 1..Len(m) |->
             IF m[i].key = key
             THEN [m[i] EXCEPT !.seconds = @ + duration, !.entries = @ + 1]
             ELSE m[i] ]
    ELSE Append(m, [key |-> key, seconds |-> duration, entries |-> 1])

\* a key that prefers the classified project to the manual one
ProjectKeyPreferringClassification(entry) ==
    IF ~IsNull(entry.projectId) THEN Value(entry.projectId)
    ELSE IF ~IsNull(entry.manualProjectId) THEN Value(entry.manualProjectId)
    ELSE "unassigned"

\* entry.manualProjectId ?? entry.projectId ?? "unassigned"
ProjectKey(entry) ==
    IF ~IsNull(entry.manualProjectId) THEN Value(entry.manualProjectId)
    ELSE IF ~IsNull(entry.projectId) THEN Value(entry.projectId)
    ELSE "unassigned"

NoTotals ==
    [ totalTrackedSeconds |-> 0, idleSeconds |-> 0, activeSeconds |-> 0,
      projectMap |-> EmptyMap, categoryMap |-> EmptyMap, appMap |-> EmptyMap ]

\* a loop body that also files idle entries under their project and app
SummaryStepBucketingIdle(acc, entry) ==
    LET duration == DurationOrZero(entry)
    IN [ acc EXCEPT
           !.totalTrackedSeconds = @ + duration,
           !.idleSeconds = IF entry.isIdle THEN @ + duration ELSE @,
           !.activeSeconds = IF entry.isIdle THEN @ ELSE @ + duration,
           !.projectMap = MapAdd(@, ProjectKey(entry), duration),
           !.appMap = MapAdd(@, entry.appName, duration) ]

\* one pass of "for (const entry of entries)" in getDailySummary; nothing in
\* the loop writes to categoryMap
SummaryStep(acc, entry) ==
    LET duration == DurationOrZero(entry)
    IN IF entry.isIdle
       THEN [ acc EXCEPT !.totalTrackedSeconds = @ + duration,
                         !.idleSeconds = @ + duration ]
       ELSE [ acc EXCEPT !.totalTrackedSeconds = @ + duration,
                         !.activeSeconds = @ + duration,
                         !.projectMap = MapAdd(@, ProjectKey(entry), duration),
                         !.appMap = MapAdd(@, entry.appName, duration) ]

RECURSIVE SummaryLoop(_, _)
SummaryLoop(acc, list) ==
    IF list = << >> THEN acc
    ELSE SummaryLoop(SummaryStep(acc, Head(list)), Tail(list))

\* .sort((a, b) => b.seconds - a.seconds): descending and stable
RECURSIVE SortBySecondsDesc(_)
SortBySecondsDesc(s) ==
    IF s = << >> THEN << >>
    ELSE LET i == CHOOSE a \in 1..Len(s) :
                     /\ \A b \in 1..Len(s) : s[b].seconds <= s[a].seconds
                     /\ \A b \in 1..(a - 1) : s[b].seconds < s[a].seconds
         IN <<s[i]>> \o SortBySecondsDesc(SubSeq(s, 1, i - 1)
                                            \o SubSeq(s, i + 1, Len(s)))

\* date.setHours(0, 0, 0, 0), the local zone being UTC
StartOfDay(ms) == (ms \div MsPerDay) * MsPerDay

\* .slice(0, 10)
TopAppsLimit == 10

\* getDailySummary(date)
getDailySummary(rows, dateMs) ==
    LET startOfDay == StartOfDay(dateMs)
        endOfDay == startOfDay + MsPerDay
        acc == SummaryLoop(NoTotals,
                           getTimeEntries(rows, startOfDay, endOfDay, Null))
        sorted == SortBySecondsDesc(acc.appMap)
    IN [ date |-> startOfDay,
         totalTrackedSeconds |-> acc.totalTrackedSeconds,
         idleSeconds |-> acc.idleSeconds,
         activeSeconds |-> acc.activeSeconds,
         projectBreakdown |-> acc.projectMap,
         categoryBreakdown |-> acc.categoryMap,
         topApps |-> SubSeq(sorted, 1,
                            IF Len(sorted) < TopAppsLimit
                            THEN Len(sorted) ELSE TopAppsLimit) ]

(***************************************************************************)
(* State.                                                                  *)
(***************************************************************************)
VARIABLES
    clock,        \* wall clock, ms since the epoch
    ticks,        \* timer ticks fired so far
    entries,      \* rows of time_entries, in rowid order
    nextId,       \* the next AUTOINCREMENT rowid
    pc,           \* per invocation of captureAndAnalyze: the await it is at
    now,          \* per invocation: const now = new Date()
    windowOf,     \* per invocation: const windowInfo
    idleReading,  \* what the idle probe last returned
    probedWindow, \* what the active-window probe last returned
    manualEdits,  \* manual project assignments made so far
    logged,       \* the last line captureAndAnalyze logged
    pending,      \* analyzeTask promises dispatched and not yet settled
    call,         \* one call of analyzeTask, step by step
    batch,        \* one call of batchAnalyzeTasks, step by step
    op,           \* the store or report call made last, and what it returned
    watcher,      \* one idle watcher made by createIdleWatcher
    life          \* the persisted isRunning flag and the tracker processes

trackerVars ==
    <<clock, ticks, entries, nextId, pc, now, windowOf, idleReading,
      probedWindow, manualEdits, logged, pending>>
vars ==
    <<clock, ticks, entries, nextId, pc, now, windowOf, idleReading,
      probedWindow, manualEdits, logged, pending, call, batch, op, watcher, life>>

Slots == 1..MaxOverlap
NoWindow == [appName |-> << >>, title |-> ""]
\* setInterval period: captureIntervalMinutes * 60 * 1000
intervalMs == captureIntervalMinutes * 60 * 1000
NoAnalysis ==
    [ taskDescription |-> << >>, suggestedProjectId |-> Null, confidence |-> 0,
      category |-> "", notes |-> Null ]
\* no call of analyzeTask is being followed
CallIdle ==
    [ pc |-> "none", windowInfo |-> NoWindow, appCategory |-> "",
      screenshotPath |-> Null, apiKey |-> FALSE, requests |-> << >>,
      replies |-> << >>, state |-> "pending", value |-> NoAnalysis ]

\* no call of batchAnalyzeTasks is being followed
BatchIdle ==
    [ pc |-> "none", entries |-> << >>, chunk |-> 0, inFlight |-> {},
      results |-> << >>, failed |-> {}, timers |-> 0 ]
\* no store or report call has been made
NoOp == [name |-> "none"]

\* no idle watcher is being followed
WatcherIdle ==
    [ pc |-> "none", timer |-> Null, intervals |-> {}, nextTimer |-> 1,
      wasIdle |-> FALSE, inFlight |-> {}, started |-> 0, checked |-> << >>,
      calls |-> << >>, log |-> << >> ]
\* no tracker process is being followed
LifeIdle == [isRunning |-> FALSE, procs |-> << >>, commands |-> 0]

\* what analyzeTask can hand to the .then handler of captureAndAnalyze: a
\* parsed backend text, or the fallback when the backend failed
BackendTexts ==
    { << LBrace, Member("taskDescription", Some("Writing code")),
         Member("suggestedProjectId", Some("p2")),
         Member("category", Some("coding")), RBrace >> }

TrackerInit ==
    /\ clock = 0
    /\ ticks = 0
    /\ entries = << >>
    /\ nextId = 1
    /\ pc = [c \in Slots |-> "idle"]
    /\ now = [c \in Slots |-> 0]
    /\ windowOf = [c \in Slots |-> NoWindow]
    /\ idleReading = 0
    /\ probedWindow = Null
    /\ manualEdits = 0
    /\ logged = "none"
    /\ pending = {}

Init ==
    /\ TrackerInit
    /\ call = CallIdle
    /\ batch = BatchIdle
    /\ op = NoOp
    /\ watcher = WatcherIdle
    /\ life = LifeIdle

(***************************************************************************)
(* src/index.ts captureAndAnalyze, one action per resumption.  The locals  *)
(* of an invocation (now, windowInfo) are dropped when it returns.         *)
(***************************************************************************)
\* idleSeconds >= config.idleThresholdSeconds (checkIdleState)
checkIdleState(idleSeconds) == idleSeconds >= idleThresholdSeconds

\* the invocation in slot c returns
Return(c) ==
    /\ pc' = [pc EXCEPT ![c] = "idle"]
    /\ now' = [now EXCEPT ![c] = 0]
    /\ windowOf' = [windowOf EXCEPT ![c] = NoWindow]

\* a tick that waits until no classification is pending
TickAfterAnalysis(c) ==
    /\ pending = {}
    /\ ticks < MaxTicks
    /\ pc[c] = "idle"
    /\ \A b \in Slots : b < c => pc[b] # "idle"
    /\ ticks = 1 => \A b \in Slots : pc[b] = "idle"
    /\ \E late \in Jitters :
          /\ clock' = clock + intervalMs + late
          /\ now' = [now EXCEPT ![c] = clock + intervalMs + late]
    /\ ticks' = ticks + 1
    /\ pc' = [pc EXCEPT ![c] = "checkIdleState"]
    /\ UNCHANGED <<entries, nextId, windowOf, idleReading, probedWindow,
                   manualEdits, logged, pending, call, batch, op, watcher, life>>

\* the timer fires (or startTracker makes the initial capture): a new
\* invocation reads the clock and suspends at await checkIdleState(config).
\* startTracker awaits the initial capture before it calls setInterval, so
\* the first timer tick follows the return of the initial invocation;
\* later ticks do not wait for earlier invocations.
Tick(c) ==
    /\ ticks < MaxTicks
    /\ pc[c] = "idle"
    /\ \A b \in Slots : b < c => pc[b] # "idle"
    /\ ticks = 1 => \A b \in Slots : pc[b] = "idle"
    /\ \E late \in Jitters :
          /\ clock' = clock + intervalMs + late
          /\ now' = [now EXCEPT ![c] = clock + intervalMs + late]
    /\ ticks' = ticks + 1
    /\ pc' = [pc EXCEPT ![c] = "checkIdleState"]
    /\ UNCHANGED <<entries, nextId, windowOf, idleReading, probedWindow,
                   manualEdits, logged, pending, call, batch, op, watcher, life>>

\* an idle skip that closes the open entry before it returns
SkipIdleClosing(c) ==
    /\ pc[c] = "checkIdleState"
    /\ \E r \in IdleReadings :
          /\ checkIdleState(r)
          /\ idleReading' = r
    /\ \E i \in IF entries = << >> THEN {0} ELSE LastEntryCandidates(entries) :
          entries' = updatePreviousEntryDuration(entries, now[c], i)
    /\ logged' = "Skipping capture - user is idle"
    /\ Return(c)
    /\ UNCHANGED <<clock, ticks, nextId, probedWindow, manualEdits,
                   pending, call, batch, op, watcher, life>>

\* if (idleState.isIdle) return
SkipIdle(c) ==
    /\ pc[c] = "checkIdleState"
    /\ \E r \in IdleReadings :
          /\ checkIdleState(r)
          /\ idleReading' = r
    /\ logged' = "Skipping capture - user is idle"
    /\ Return(c)
    /\ UNCHANGED <<clock, ticks, entries, nextId, probedWindow, manualEdits,
                   pending, call, batch, op, watcher, life>>

\* not idle: suspend at await getActiveWindow()
PassIdle(c) ==
    /\ pc[c] = "checkIdleState"
    /\ \E r \in IdleReadings :
          /\ ~checkIdleState(r)
          /\ idleReading' = r
    /\ pc' = [pc EXCEPT ![c] = "getActiveWindow"]
    /\ UNCHANGED <<clock, ticks, entries, nextId, now, windowOf, probedWindow,
                   manualEdits, logged, pending, call, batch, op, watcher, life>>

\* if (!windowInfo) return
SkipNoWindow(c) ==
    /\ pc[c] = "getActiveWindow"
    /\ probedWindow' = Null
    /\ logged' = "No active window detected"
    /\ Return(c)
    /\ UNCHANGED <<clock, ticks, entries, nextId, idleReading, manualEdits,
                   pending, call, batch, op, watcher, life>>

\* if (shouldExcludeWindow(windowInfo, config)) return
SkipExcluded(c) ==
    /\ pc[c] = "getActiveWindow"
    /\ \E w \in WindowInfos :
          /\ shouldExcludeWindow(w, excludedApps)
          /\ probedWindow' = Some(w)
    /\ logged' = "Skipping excluded app"
    /\ Return(c)
    /\ UNCHANGED <<clock, ticks, entries, nextId, idleReading, manualEdits,
                   pending, call, batch, op, watcher, life>>

\* updatePreviousEntryDuration(now), then suspend at
\* await captureScreenshot(config)
BackFill(c) ==
    /\ pc[c] = "getActiveWindow"
    /\ \E w \in WindowInfos :
          /\ ~shouldExcludeWindow(w, excludedApps)
          /\ probedWindow' = Some(w)
          /\ windowOf' = [windowOf EXCEPT ![c] = w]
    /\ \E i \in IF entries = << >> THEN {0} ELSE LastEntryCandidates(entries) :
          entries' = updatePreviousEntryDuration(entries, now[c], i)
    /\ pc' = [pc EXCEPT ![c] = "captureScreenshot"]
    /\ UNCHANGED <<clock, ticks, nextId, now, idleReading, manualEdits, logged,
                   pending, call, batch, op, watcher, life>>

\* updatePreviousEntryDuration throws (store failure): caught by the outer
\* try, logged, the invocation ends
BackFillError(c) ==
    /\ pc[c] = "getActiveWindow"
    /\ \E w \in WindowInfos :
          /\ ~shouldExcludeWindow(w, excludedApps)
          /\ probedWindow' = Some(w)
    /\ logged' = "Capture error"
    /\ Return(c)
    /\ UNCHANGED <<clock, ticks, entries, nextId, idleReading, manualEdits,
                   pending, call, batch, op, watcher, life>>

\* the screenshot settled (a failure leaves screenshotPath null);
\* insertTimeEntry; analyzeTask(...) is dispatched and not awaited
InsertEntry(c) ==
    /\ pc[c] = "captureScreenshot"
    /\ \E screenshotPath \in {Null, Some("screenshot.jpg")} :
          /\ entries' = insertTimeEntry(entries, nextId,
                [ timestamp |-> now[c],
                  appName |-> windowOf[c].appName,
                  windowTitle |-> windowOf[c].title,
                  screenshotPath |-> screenshotPath,
                  taskDescription |-> Null,
                  projectId |-> Null,
                  manualProjectId |-> Null,
                  durationSeconds |-> Null,
                  isIdle |-> FALSE,
                  aiAnalysis |-> Null ])
          /\ pending' = pending \cup
                { [ entryId |-> nextId,
                    windowInfo |-> windowOf[c],
                    appCategory |-> categorizeApp(windowOf[c].appName),
                    screenshotPath |-> screenshotPath ] }
    /\ nextId' = nextId + 1
    /\ logged' = "Captured"
    /\ Return(c)
    /\ UNCHANGED <<clock, ticks, idleReading, probedWindow, manualEdits, call, batch, op, watcher, life>>

\* an insert failure that leaves captureAndAnalyze as a rejection: the
\* invocation never returns
InsertErrorEscaping(c) ==
    /\ pc[c] = "captureScreenshot"
    /\ pc' = [pc EXCEPT ![c] = "rejected"]
    /\ UNCHANGED <<clock, ticks, entries, nextId, now, windowOf, idleReading,
                   probedWindow, manualEdits, logged, pending, call, batch, op,
                   watcher, life>>

\* insertTimeEntry throws (store failure): caught, logged, the invocation
\* ends after the back-fill and without a new entry
InsertError(c) ==
    /\ pc[c] = "captureScreenshot"
    /\ logged' = "Capture error"
    /\ Return(c)
    /\ UNCHANGED <<clock, ticks, entries, nextId, idleReading, probedWindow,
                   manualEdits, pending, call, batch, op, watcher, life>>

\* analyzeTask(...).then(analysis => updateEntryAnalysis(entryId, ...))
AnalysisThen(p) ==
    /\ p \in pending
    /\ \E analysis \in
            { parseAnalysisResult(t, p.windowInfo, p.appCategory) : t \in BackendTexts }
              \cup { createFallbackAnalysis(p.windowInfo, p.appCategory) } :
          entries' = updateEntryAnalysis(entries, p.entryId,
                        analysis.taskDescription, analysis.suggestedProjectId,
                        JSONstringify(analysis))
    /\ pending' = pending \ {p}
    /\ UNCHANGED <<clock, ticks, nextId, pc, now, windowOf, idleReading,
                   probedWindow, manualEdits, logged, call, batch, op, watcher, life>>

\* the user assigns a project by hand: setManualProject(entryId, projectId)
SetManualProject(entryId, projectId) ==
    /\ manualEdits < MaxManualEdits
    /\ \E k \in 1..Len(entries) : entries[k].id = entryId
    /\ entries' = setManualProject(entries, entryId, projectId)
    /\ manualEdits' = manualEdits + 1
    /\ UNCHANGED <<clock, ticks, nextId, pc, now, windowOf, idleReading,
                   probedWindow, logged, pending, call, batch, op, watcher, life>>

Invocation(c) ==
    \/ Tick(c)
    \/ SkipIdle(c)
    \/ PassIdle(c)
    \/ SkipNoWindow(c)
    \/ SkipExcluded(c)
    \/ BackFill(c)
    \/ BackFillError(c)
    \/ InsertEntry(c)
    \/ InsertError(c)

StoreUse ==
    \/ \E p \in pending : AnalysisThen(p)
    \/ \E entryId \in 1..MaxTicks, projectId \in ManualProjects :
          SetManualProject(entryId, projectId)

\* the tracker as the code schedules it: a tick may start an invocation
\* while earlier ones are suspended
Next ==
    \/ \E c \in Slots : Invocation(c)
    \/ StoreUse

Spec == Init /\ [][Next]_vars

\* the tracker when every invocation returns before the next tick
NextSeq ==
    \/ Invocation(1)
    \/ StoreUse

SpecSeq == Init /\ [][NextSeq]_vars

(***************************************************************************)
(* src/agent.ts analyzeTask, one action per resumption of one call.        *)
(* call.requests lists the requests sent to a backend, call.replies what   *)
(* came back; call.state is the state of the promise analyzeTask returned. *)
(***************************************************************************)
AppCategories ==
    { "browser", "editor", "terminal", "communication", "design", "other",
      "spreadsheet", "constructor" }

\* what loadConfig can return (the file's values, or DEFAULT_CONFIG)
Configs ==
    { [llmProvider |-> "proxy", llmProxyUrl |-> Some("https://proxy")],
      [llmProvider |-> "proxy", llmProxyUrl |-> Null],
      [llmProvider |-> "claude-sdk", llmProxyUrl |-> Some("https://proxy")] }

\* raw texts a backend can answer with
RawTexts ==
    { << >>,
      << Prose >>,
      << LBrace, Prose, RBrace >>,
      << LBrace, LBrace, Member("category", Some("coding")), RBrace, RBrace >>,
      << LBrace, RBrace >>,
      << Prose, LBrace, Member("category", Some("coding")), RBrace, Prose >>,
      << LBrace, Member("category", Some("Coding")), RBrace >>,
      << LBrace, Member("category", Some("constructor")), RBrace >>,
      << LBrace, Member("category", Null), RBrace >>,
      << LBrace, Member("taskDescription", Some("Reading mail")),
         Member("category", Some("break")),
         Member("confidence", Some(90)), RBrace >> }

\* the ways a request can fail: fetch throws, the response is not OK,
\* response.json() throws
Failures == {"exception", "nonOK", "badBody"}

FailureReplies == { [status |-> f, text |-> << >>] : f \in Failures }
TextReplies == { [status |-> "ok", text |-> t] : t \in RawTexts }

InitClassify ==
    /\ TrackerInit
    /\ batch = BatchIdle
    /\ op = NoOp
    /\ watcher = WatcherIdle
    /\ life = LifeIdle
    /\ \E appCategory \in AppCategories, apiKey \in BOOLEAN,
          screenshotPath \in {Null, Some("screenshot.jpg")} :
          call = [ CallIdle EXCEPT !.pc = "loadConfig",
                                   !.windowInfo = [appName |-> AppCode, title |-> "main.ts"],
                                   !.appCategory = appCategory,
                                   !.screenshotPath = screenshotPath,
                                   !.apiKey = apiKey ]

\* the promise is fulfilled with an analysis
Fulfil(cl, analysis) ==
    [cl EXCEPT !.pc = "settled", !.state = "fulfilled", !.value = analysis]

\* a catch that sends the text-only request once more before giving up
CatchRetrying(cl) ==
    IF cl.apiKey /\ Len(cl.requests) < 3
    THEN [cl EXCEPT !.pc = "textFetch", !.requests = Append(@, "text")]
    ELSE Fulfil(cl, createFallbackAnalysis(cl.windowInfo, cl.appCategory))

\* catch (error) { return createFallbackAnalysis(windowInfo, appCategory) }
\* in analyzeTask (proxy branch) and in analyzeTaskWithClaudeSDK
CatchFallback(cl) ==
    Fulfil(cl, createFallbackAnalysis(cl.windowInfo, cl.appCategory))

\* return parseAnalysisResult(result, windowInfo, appCategory)
ReturnParsed(cl, text) ==
    Fulfil(cl, parseAnalysisResult(text, cl.windowInfo, cl.appCategory))

\* the text-only part of analyzeTaskWithProxy: callLLMProxy(config, ...,
\* false) throws before fetch when LLM_PROXY_API_KEY is unset (caught in
\* analyzeTask), else sends the request and suspends at await fetch
TextOnly(cl) ==
    IF cl.apiKey
    THEN [cl EXCEPT !.pc = "textFetch", !.requests = Append(@, "text")]
    ELSE CatchFallback(cl)

\* catch (error) { /* Fall through to text-only analysis */ } around the
\* vision request of analyzeTaskWithProxy
VisionCatch(cl) == TextOnly(cl)

\* await loadConfig() returned: the proxy branch or the SDK branch
ConfigLoaded ==
    /\ call.pc = "loadConfig"
    /\ \E config \in Configs :
          call' =
            IF config.llmProvider = "proxy" /\ ~IsNull(config.llmProxyUrl)
            THEN IF ~IsNull(call.screenshotPath)
                 THEN [call EXCEPT !.pc = "imageToBase64"]
                 ELSE TextOnly(call)
            ELSE [call EXCEPT !.pc = "sdkQuery",
                              !.requests = Append(@, "sdk")]
    /\ UNCHANGED <<trackerVars, batch, op, watcher, life>>

\* await imageToBase64(screenshotPath) returned or threw
ImageLoaded ==
    /\ call.pc = "imageToBase64"
    /\ \E readOk \in BOOLEAN :
          call' =
            IF readOk /\ call.apiKey
            THEN [call EXCEPT !.pc = "visionFetch",
                              !.requests = Append(@, "vision")]
            ELSE VisionCatch(call)
    /\ UNCHANGED <<trackerVars, batch, op, watcher, life>>

\* the vision request settled
VisionReply ==
    /\ call.pc = "visionFetch"
    /\ \E reply \in FailureReplies \cup TextReplies :
          LET cl == [call EXCEPT !.replies = Append(@, reply)]
          IN call' = IF reply.status = "ok"
                     THEN ReturnParsed(cl, reply.text)
                     ELSE VisionCatch(cl)
    /\ UNCHANGED <<trackerVars, batch, op, watcher, life>>

\* the text-only request settled
TextReply ==
    /\ call.pc = "textFetch"
    /\ \E reply \in FailureReplies \cup TextReplies :
          LET cl == [call EXCEPT !.replies = Append(@, reply)]
          IN call' = IF reply.status = "ok"
                     THEN ReturnParsed(cl, reply.text)
                     ELSE CatchFallback(cl)
    /\ UNCHANGED <<trackerVars, batch, op, watcher, life>>

\* for await (const message of query(...)) ended or threw
SdkReply ==
    /\ call.pc = "sdkQuery"
    /\ \E reply \in { r \in FailureReplies : r.status = "exception" }
                      \cup TextReplies :
          LET cl == [call EXCEPT !.replies = Append(@, reply)]
          IN call' = IF reply.status = "ok"
                     THEN ReturnParsed(cl, reply.text)
                     ELSE CatchFallback(cl)
    /\ UNCHANGED <<trackerVars, batch, op, watcher, life>>

NextClassify ==
    \/ ConfigLoaded
    \/ ImageLoaded
    \/ VisionReply
    \/ TextReply
    \/ SdkReply

SpecClassify == InitClassify /\ [][NextClassify]_vars

(***************************************************************************)
(* src/reports/weekly.ts: getWeekStart, getWeekEnd, generateWeeklyReport.  *)
(* Dates are milliseconds since the epoch read in the UTC zone; day 0 of   *)
(* the epoch was a Thursday.                                               *)
(***************************************************************************)
\* d.getDay(): 0 is Sunday
getDay(ms) == ((ms \div MsPerDay) + 4) % 7

\* a getWeekStart that moves every day forward to the Monday after its
\* Sunday-based week started
getWeekStartSundayForward(dateMs) ==
    StartOfDay(dateMs) + (1 - getDay(dateMs)) * MsPerDay

\* d.setDate(d.getDate() - day + (day === 0 ? -6 : 1)); d.setHours(0,0,0,0)
getWeekStart(dateMs) ==
    StartOfDay(dateMs)
      + ((IF getDay(dateMs) = 0 THEN -6 ELSE 1) - getDay(dateMs)) * MsPerDay

\* end.setDate(end.getDate() + 6); end.setHours(23, 59, 59, 999)
getWeekEnd(weekStart) ==
    StartOfDay(weekStart + 6 * MsPerDay) + (MsPerDay - 1)

\* while (currentDate <= weekEnd) { push(getDailySummary(currentDate));
\*                                  currentDate.setDate(getDate() + 1) }
RECURSIVE DailySummaries(_, _, _)
DailySummaries(rows, currentDate, weekEnd) ==
    IF currentDate <= weekEnd
    THEN <<getDailySummary(rows, currentDate)>>
           \o DailySummaries(rows, currentDate + MsPerDay, weekEnd)
    ELSE << >>

\* existing = totals.get(key) ?? { seconds: 0, entries: 0 };
\* existing.seconds += item.seconds; existing.entries += item.entries
MapMerge(m, item) ==
    IF MapHas(m, item.key)
    THEN [ i \in 1..Len(m) |->
             IF m[i].key = item.key
             THEN [m[i] EXCEPT !.seconds = @ + item.seconds,
                               !.entries = @ + item.entries]
             ELSE m[i] ]
    ELSE Append(m, item)

RECURSIVE MergeAll(_, _)
MergeAll(m, items) ==
    IF items = << >> THEN m
    ELSE MergeAll(MapMerge(m, Head(items)), Tail(items))

\* the totals over "for (const day of dailySummaries)" for one breakdown
RECURSIVE WeekTotals(_, _, _)
WeekTotals(m, days, breakdown) ==
    IF days = << >> THEN m
    ELSE WeekTotals(MergeAll(m, Head(days)[breakdown]), Tail(days), breakdown)

\* a reduce over everything tracked, idle time included
RECURSIVE TotalSecondsTracked(_)
TotalSecondsTracked(days) ==
    IF days = << >> THEN 0
    ELSE Head(days).totalTrackedSeconds + TotalSecondsTracked(Tail(days))

\* dailySummaries.reduce((sum, day) => sum + day.activeSeconds, 0)
RECURSIVE TotalSeconds(_)
TotalSeconds(days) ==
    IF days = << >> THEN 0
    ELSE Head(days).activeSeconds + TotalSeconds(Tail(days))

\* generateWeeklyReport(weekStartDate?): weekStartDate ?? getWeekStart();
\* totalHours is totalSeconds / 3600
generateWeeklyReport(rows, weekStartDate, nowMs) ==
    LET weekStart == IF IsNull(weekStartDate) THEN getWeekStart(nowMs)
                     ELSE Value(weekStartDate)
        weekEnd == getWeekEnd(weekStart)
        days == DailySummaries(rows, weekStart, weekEnd)
    IN [ weekStartDate |-> weekStart,
         weekEndDate |-> weekEnd,
         totalSeconds |-> TotalSeconds(days),
         dailySummaries |-> days,
         projectTotals |->
            SortBySecondsDesc(WeekTotals(EmptyMap, days, "projectBreakdown")),
         categoryTotals |->
            SortBySecondsDesc(WeekTotals(EmptyMap, days, "categoryBreakdown")) ]

(***************************************************************************)
(* The Entry Store and the Aggregator under direct use: the exported       *)
(* functions of src/storage/database.ts and generateWeeklyReport applied   *)
(* to a store filled with insertTimeEntry.  op is the call made last and   *)
(* what it returned.                                                       *)
(***************************************************************************)
\* Monday 1970-01-05 is day 4
MondayMs == 4 * MsPerDay
TuesdayMs == 5 * MsPerDay
\* the time of the calls: Wednesday 1970-01-07 09:00
StoreNowMs == 6 * MsPerDay + 9 * MsPerHour

AppSlack == <<"S", "l", "a", "c", "k">>

\* ai_analysis texts: what the classifier stores, and a text that is no JSON
CodingAnalysis ==
    JSONstringify([ taskDescription |-> <<"Writing code">>,
                    suggestedProjectId |-> Some("p2"), confidence |-> 90,
                    category |-> "coding", notes |-> Null ])
CommunicationAnalysis ==
    JSONstringify([ taskDescription |-> <<"Team discussion">>,
                    suggestedProjectId |-> Some("p2"), confidence |-> 85,
                    category |-> "communication", notes |-> Null ])
NotValidJson == << Prose >>

\* the entries handed to insertTimeEntry
SampleEntry(timestamp, appName, projectId, durationSeconds, isIdle, aiAnalysis) ==
    [ timestamp |-> timestamp, appName |-> appName, windowTitle |-> "index.ts",
      screenshotPath |-> Null,
      taskDescription |-> IF IsNull(aiAnalysis) THEN Null ELSE Some(<<"Coding">>),
      projectId |-> projectId, manualProjectId |-> Null,
      durationSeconds |-> durationSeconds, isIdle |-> isIdle,
      aiAnalysis |-> aiAnalysis ]

SampleEntries ==
    { SampleEntry(TuesdayMs + 12 * MsPerHour, AppCode, Some("p2"), Some(3600),
                  FALSE, Some(CodingAnalysis)),
      SampleEntry(TuesdayMs + 14 * MsPerHour, AppCode, Some("p2"), Some(1800),
                  FALSE, Some(CodingAnalysis)),
      SampleEntry(TuesdayMs, AppSlack, Some("p2"), Some(1800),
                  FALSE, Some(CommunicationAnalysis)),
      SampleEntry(MondayMs + 10 * MsPerHour, AppCode, Some("p2"), Some(1800),
                  FALSE, Some(CodingAnalysis)),
      SampleEntry(TuesdayMs - 1, AppCode, Null, Null, FALSE, Null),
      SampleEntry(TuesdayMs, AppCode, Null, Some(3600), FALSE, Some(NotValidJson)),
      SampleEntry(TuesdayMs + 12 * MsPerHour, AppCode, Null, Some(3600),
                  TRUE, Some(CodingAnalysis)) }

\* the analyses a classification hands to updateEntryAnalysis
PatchAnalyses ==
    { parseAnalysisResult(t, [appName |-> AppCode, title |-> "index.ts"], "editor")
         : t \in BackendTexts }
      \cup { createFallbackAnalysis([appName |-> AppCode, title |-> "index.ts"],
                                    "editor") }

\* arguments of the queries: <<startDate, endDate, projectId>>
RangeQueries ==
    { <<MondayMs, TuesdayMs, Null>>,
      <<TuesdayMs, TuesdayMs + MsPerDay, Null>>,
      <<MondayMs, TuesdayMs + MsPerDay, Null>>,
      <<MondayMs, TuesdayMs + MsPerDay, Some("p1")>>,
      <<MondayMs, TuesdayMs + MsPerDay, Some("p2")>> }
SummaryDates == {MondayMs + 8 * MsPerHour, TuesdayMs, TuesdayMs + MsPerDay}
RetentionDays == {1, 2}
\* --week values: none, a Monday, a Wednesday, a Sunday afternoon
WeekStartDates ==
    { Null, Some(MondayMs), Some(MondayMs + 2 * MsPerDay),
      Some(MondayMs + 6 * MsPerDay + 15 * MsPerHour) }

InitStore ==
    /\ TrackerInit
    /\ call = CallIdle
    /\ batch = BatchIdle
    /\ op = NoOp
    /\ watcher = WatcherIdle
    /\ life = LifeIdle

\* insertTimeEntry(entry)
StoreInsert(entry) ==
    /\ nextId <= MaxRows
    /\ entries' = insertTimeEntry(entries, nextId, entry)
    /\ nextId' = nextId + 1
    /\ op' = [name |-> "insertTimeEntry", entryId |-> nextId]
    /\ UNCHANGED <<clock, ticks, pc, now, windowOf, idleReading, probedWindow,
                   manualEdits, logged, pending, call, batch, watcher, life>>

\* updateEntryAnalysis(entryId, analysis.taskDescription,
\* analysis.suggestedProjectId, JSON.stringify(analysis)) when the
\* classification of an entry inserted without one settles; by then the
\* entry may have been deleted, and the id may be one never inserted
StorePatch(entryId, analysis) ==
    /\ \A k \in 1..Len(entries) :
          entries[k].id = entryId => IsNull(entries[k].aiAnalysis)
    /\ entries' = updateEntryAnalysis(entries, entryId, analysis.taskDescription,
                                      analysis.suggestedProjectId,
                                      JSONstringify(analysis))
    /\ op' = [name |-> "updateEntryAnalysis", entryId |-> entryId]
    /\ UNCHANGED <<clock, ticks, nextId, pc, now, windowOf, idleReading,
                   probedWindow, manualEdits, logged, pending, call, batch, watcher, life>>

\* setManualProject(entryId, projectId)
StoreSetManualProject(entryId, projectId) ==
    /\ manualEdits < MaxManualEdits
    /\ entries' = setManualProject(entries, entryId, projectId)
    /\ manualEdits' = manualEdits + 1
    /\ op' = [name |-> "setManualProject", entryId |-> entryId]
    /\ UNCHANGED <<clock, ticks, nextId, pc, now, windowOf, idleReading,
                   probedWindow, logged, pending, call, batch, watcher, life>>

\* deleteOldEntries(retentionDays): returns result.changes
StoreDeleteOld(retentionDays) ==
    /\ entries' = deleteOldEntries(entries, StoreNowMs, retentionDays)
    /\ op' = [ name |-> "deleteOldEntries",
               result |-> Len(entries) - Len(entries') ]
    /\ UNCHANGED <<clock, ticks, nextId, pc, now, windowOf, idleReading,
                   probedWindow, manualEdits, logged, pending, call, batch, watcher, life>>

\* getTimeEntries(startDate, endDate, projectId?)
StoreRange(startMs, endMs, projectId) ==
    /\ op' = [ name |-> "getTimeEntries", startMs |-> startMs, endMs |-> endMs,
               projectId |-> projectId,
               result |-> getTimeEntries(entries, startMs, endMs, projectId) ]
    /\ UNCHANGED <<trackerVars, call, batch, watcher, life>>

\* getDailySummary(date)
StoreDailySummary(dateMs) ==
    /\ op' = [ name |-> "getDailySummary", dateMs |-> dateMs,
               result |-> getDailySummary(entries, dateMs) ]
    /\ UNCHANGED <<trackerVars, call, batch, watcher, life>>

\* generateWeeklyReport(weekStartDate?)
StoreWeeklyReport(weekStartDate) ==
    /\ op' = [ name |-> "generateWeeklyReport", weekStartDate |-> weekStartDate,
               result |-> generateWeeklyReport(entries, weekStartDate, StoreNowMs) ]
    /\ UNCHANGED <<trackerVars, call, batch, watcher, life>>

NextStore ==
    \/ \E entry \in SampleEntries : StoreInsert(entry)
    \/ \E entryId \in 1..nextId, analysis \in PatchAnalyses :
          StorePatch(entryId, analysis)
    \/ \E entryId \in 1..nextId, projectId \in ManualProjects :
          StoreSetManualProject(entryId, projectId)
    \/ \E retentionDays \in RetentionDays : StoreDeleteOld(retentionDays)
    \/ \E q \in RangeQueries : StoreRange(q[1], q[2], q[3])
    \/ \E dateMs \in SummaryDates : StoreDailySummary(dateMs)
    \/ \E weekStartDate \in WeekStartDates : StoreWeeklyReport(weekStartDate)

SpecStore == InitStore /\ [][NextStore]_vars

(***************************************************************************)
(* src/agent.ts batchAnalyzeTasks, one action per resumption of one call.  *)
(* batch.inFlight holds the ids whose analyzeTask call has started and not *)
(* settled, batch.results is the Map the call fills, batch.failed the ids  *)
(* whose classification failed inside analyzeTask, batch.timers the number *)
(* of setTimeout(resolve, 500) made.                                       *)
(***************************************************************************)
concurrencyLimit == 3
chunkDelayMs == 500

\* ids of the entries handed to batchAnalyzeTasks
BatchEntryId(k) == 100 + k

\* for (i = 0; i < entries.length; i += concurrencyLimit)
\*    chunks.push(entries.slice(i, i + concurrencyLimit))
Chunks(list) ==
    [ c \in 1..((Len(list) + concurrencyLimit - 1) \div concurrencyLimit) |->
        SubSeq(list, (c - 1) * concurrencyLimit + 1,
               IF c * concurrencyLimit < Len(list)
               THEN c * concurrencyLimit ELSE Len(list)) ]

\* results.set(id, analysis)
ResultsSet(results, id, analysis) ==
    [ k \in DOMAIN results \cup {id} |->
        IF k = id THEN analysis ELSE results[k] ]

InitBatch ==
    /\ TrackerInit
    /\ call = CallIdle
    /\ op = NoOp
    /\ watcher = WatcherIdle
    /\ life = LifeIdle
    /\ \E n \in 0..MaxBatch, w \in WindowInfos :
          batch = [ BatchIdle EXCEPT
                      !.pc = "chunks",
                      !.entries =
                         [ k \in 1..n |->
                             [ id |-> BatchEntryId(k), windowInfo |-> w,
                               appCategory |-> categorizeApp(w.appName),
                               screenshotPath |-> Null ] ] ]

\* chunk.map(async (entry) => ...): every call of the chunk starts, then
\* await Promise.all(promises)
StartChunk(b, c) ==
    [ b EXCEPT !.pc = "Promise.all", !.chunk = c,
               !.inFlight = { Chunks(b.entries)[c][k].id
                                 : k \in 1..Len(Chunks(b.entries)[c]) } ]

\* the chunks are built; the loop starts the first chunk, or there is none
\* and the empty Map is returned
BatchStart ==
    /\ batch.pc = "chunks"
    /\ batch' = IF Len(Chunks(batch.entries)) = 0
                THEN [batch EXCEPT !.pc = "returned"]
                ELSE StartChunk(batch, 1)
    /\ UNCHANGED <<trackerVars, call, op, watcher, life>>

\* a call whose failed classification leaves the Map without its id
BatchCallSettlesDropping(k, failed) ==
    /\ batch.pc = "Promise.all"
    /\ k \in 1..Len(batch.entries)
    /\ batch.entries[k].id \in batch.inFlight
    /\ \E analysis \in
            IF failed
            THEN { createFallbackAnalysis(batch.entries[k].windowInfo,
                                          batch.entries[k].appCategory) }
            ELSE { parseAnalysisResult(t, batch.entries[k].windowInfo,
                                       batch.entries[k].appCategory)
                      : t \in BackendTexts } :
          batch' = [ batch EXCEPT
                       !.inFlight = @ \ {batch.entries[k].id},
                       !.results = IF failed THEN @
                                   ELSE ResultsSet(@, batch.entries[k].id, analysis),
                       !.failed = IF failed THEN @ \cup {batch.entries[k].id}
                                  ELSE @ ]
    /\ UNCHANGED <<trackerVars, call, op, watcher, life>>

\* const analysis = await analyzeTask(...); results.set(entry.id, analysis):
\* analyzeTask fulfils with a parsed analysis, or with the fallback when the
\* classification failed
BatchCallSettles(k, failed) ==
    /\ batch.pc = "Promise.all"
    /\ k \in 1..Len(batch.entries)
    /\ batch.entries[k].id \in batch.inFlight
    /\ \E analysis \in
            IF failed
            THEN { createFallbackAnalysis(batch.entries[k].windowInfo,
                                          batch.entries[k].appCategory) }
            ELSE { parseAnalysisResult(t, batch.entries[k].windowInfo,
                                       batch.entries[k].appCategory)
                      : t \in BackendTexts } :
          batch' = [ batch EXCEPT
                       !.inFlight = @ \ {batch.entries[k].id},
                       !.results = ResultsSet(@, batch.entries[k].id, analysis),
                       !.failed = IF failed THEN @ \cup {batch.entries[k].id}
                                  ELSE @ ]
    /\ UNCHANGED <<trackerVars, call, op, watcher, life>>

\* a loop that sets the timer after every chunk
BatchChunkDoneAlwaysDelaying ==
    /\ batch.pc = "Promise.all"
    /\ batch.inFlight = {}
    /\ batch' = [batch EXCEPT !.pc = "setTimeout", !.timers = @ + 1]
    /\ UNCHANGED <<trackerVars, call, op, watcher, life>>

\* Promise.all resolved; if (chunk !== chunks[chunks.length - 1]) await the
\* timer, else the loop ends and results is returned
BatchChunkDone ==
    /\ batch.pc = "Promise.all"
    /\ batch.inFlight = {}
    /\ batch' = IF batch.chunk # Len(Chunks(batch.entries))
                THEN [batch EXCEPT !.pc = "setTimeout", !.timers = @ + 1]
                ELSE [batch EXCEPT !.pc = "returned"]
    /\ UNCHANGED <<trackerVars, call, op, watcher, life>>

\* the timer fired: the loop goes on to the next chunk, or ends
BatchDelayElapsed ==
    /\ batch.pc = "setTimeout"
    /\ clock' = clock + chunkDelayMs
    /\ batch' = IF batch.chunk < Len(Chunks(batch.entries))
                THEN StartChunk(batch, batch.chunk + 1)
                ELSE [batch EXCEPT !.pc = "returned"]
    /\ UNCHANGED <<ticks, entries, nextId, pc, now, windowOf, idleReading,
                   probedWindow, manualEdits, logged, pending, call, op, watcher, life>>

NextBatch ==
    \/ BatchStart
    \/ \E k \in 1..MaxBatch, failed \in BOOLEAN : BatchCallSettles(k, failed)
    \/ BatchChunkDone
    \/ BatchDelayElapsed

SpecBatch == InitBatch /\ [][NextBatch]_vars

\* the event loop keeps running the continuations that are ready
SpecBatchFair == SpecBatch /\ WF_vars(NextBatch)


(***************************************************************************)
(* Functions that read no state: getWeekStart and calculateWeekChange of   *)
(* src/reports/weekly.ts and formatError of the logger, each applied to    *)
(* arguments drawn from the sets below; op is the call and its result.     *)
(***************************************************************************)
\* the instants handed to getWeekStart: the first, a middle and the last
\* millisecond of every day of the weeks from Monday 1969-12-29 on
WeekProbeDates ==
    { d * MsPerDay + t : d \in (-3)..(-3 + 7 * ProbeWeeks - 1),
                         t \in {0, 9 * MsPerHour + 1, MsPerDay - 1} }

\* createMockReport(totalHours, projects) of the weekly tests: a
\* WeeklyReport of which calculateWeekChange reads these two fields.  A
\* number of hours is held as the number of seconds it stands for, so that
\* "seconds / 3600" is exact and is the number of seconds itself
createMockReport(totalHours, projects) ==
    [ totalHours |-> totalHours, projectTotals |-> projects ]

\* the reports of the tests: totals of 0, 35, 40 and 45 hours
MockReports ==
    { createMockReport(h * 3600, p) :
         h \in {0, 35, 40, 45},
         p \in { << >>,
                 << [projectId |-> "proj-1", seconds |-> 36000] >>,
                 << [projectId |-> "proj-1", seconds |-> 28800] >>,
                 << [projectId |-> "proj-2", seconds |-> 18000] >>,
                 << [projectId |-> "proj-1", seconds |-> 36000],
                    [projectId |-> "proj-2", seconds |-> 18000] >> } }

\* new Map(previousWeek.projectTotals.map((p) => [p.projectId, p.seconds / 3600]))
\* and Map.set: a key met again keeps its place and takes the new value
ChangeSet(m, key, value) ==
    IF \E i \in 1..Len(m) : m[i].key = key
    THEN [ i \in 1..Len(m) |->
             IF m[i].key = key THEN [m[i] EXCEPT !.value = value] ELSE m[i] ]
    ELSE Append(m, [key |-> key, value |-> value])

RECURSIVE prevProjectMap(_)
prevProjectMap(projectTotals) ==
    IF projectTotals = << >> THEN << >>
    ELSE LET n == Len(projectTotals)
             p == projectTotals[n]
         IN ChangeSet(prevProjectMap(SubSeq(projectTotals, 1, n - 1)),
                      p.projectId, p.seconds)

\* for (const project of currentWeek.projectTotals) {
\*   prevHours = prevProjectMap.get(project.projectId) ?? 0;
\*   projectChanges.set(project.projectId, currentHours - prevHours) }
RECURSIVE ProjectChanges(_, _)
ProjectChanges(currentTotals, prevMap) ==
    IF currentTotals = << >> THEN << >>
    ELSE LET n == Len(currentTotals)
             project == currentTotals[n]
             prevHours ==
                IF \E i \in 1..Len(prevMap) : prevMap[i].key = project.projectId
                THEN (CHOOSE e \in { prevMap[i] : i \in 1..Len(prevMap) }
                         : e.key = project.projectId).value
                ELSE 0
         IN ChangeSet(ProjectChanges(SubSeq(currentTotals, 1, n - 1), prevMap),
                      project.projectId, project.seconds - prevHours)

\* calculateWeekChange(currentWeek, previousWeek); the percentage is the
\* fraction num / den
calculateWeekChange(currentWeek, previousWeek) ==
    LET hoursChange == currentWeek.totalHours - previousWeek.totalHours
    IN [ hoursChange |-> hoursChange,
         hoursChangePercent |->
            IF previousWeek.totalHours > 0
            THEN [num |-> hoursChange * 100, den |-> previousWeek.totalHours]
            ELSE [num |-> 0, den |-> 1],
         projectChanges |->
            ProjectChanges(currentWeek.projectTotals,
                           prevProjectMap(previousWeek.projectTotals)) ]

\* const MAX_ERROR_LENGTH = 1000
MAX_ERROR_LENGTH == 1000

\* truncateError(str)
truncateError(str) ==
    IF Len(str) <= MAX_ERROR_LENGTH THEN str
    ELSE SubSeq(str, 1, MAX_ERROR_LENGTH) \o <<".", ".", ".">>

\* "x".repeat(n)
Repeat(ch, n) == [i \in 1..n |-> ch]

\* the values handed to formatError.  An Error has a message and a stack;
\* any other value that is no string has the text JSON.stringify makes of it
\* (none where it throws, and none for undefined, where reading .length of
\* the result throws inside the try) and the text String() makes of it
ErrorValues ==
    LET MessageLengths == {0, 19, 999, 1000, 1001, 2000}
    IN
    { [type |-> "Error", message |-> Repeat("x", n), stack |-> stack]
         : n \in MessageLengths,
           stack \in {Null, Some(<< >>), Some(Repeat("s", 1200))} }
      \cup { [type |-> "string", value |-> Repeat("x", n)] : n \in MessageLengths }
      \cup { [type |-> "object", json |-> Some(Repeat("j", n)),
              text |-> <<"[", "o", "b", "j", "e", "c", "t", "]">>]
                : n \in MessageLengths }
      \cup { [type |-> "object", json |-> Some(<<"n", "u", "l", "l">>),
              text |-> <<"n", "u", "l", "l">>],
             [type |-> "object", json |-> Null,
              text |-> <<"u", "n", "d", "e", "f", "i", "n", "e", "d">>],
             [type |-> "object", json |-> Null, text |-> Repeat("c", 1500)] }

\* formatError(error, { showStack })
formatError(error, showStack) ==
    IF error.type = "Error"
    THEN IF showStack /\ ~IsNull(error.stack) /\ Value(error.stack) # << >>
         THEN truncateError(Value(error.stack))
         ELSE truncateError(error.message)
    ELSE IF error.type = "string"
    THEN truncateError(error.value)
    ELSE IF ~IsNull(error.json)
    THEN truncateError(Value(error.json))
    ELSE truncateError(error.text)

CallGetWeekStart(dateMs) ==
    /\ op' = [ name |-> "getWeekStart", dateMs |-> dateMs,
               result |-> getWeekStart(dateMs) ]
    /\ UNCHANGED <<trackerVars, call, batch, watcher, life>>

CallCalculateWeekChange(currentWeek, previousWeek) ==
    /\ op' = [ name |-> "calculateWeekChange", currentWeek |-> currentWeek,
               previousWeek |-> previousWeek,
               result |-> calculateWeekChange(currentWeek, previousWeek) ]
    /\ UNCHANGED <<trackerVars, call, batch, watcher, life>>

CallFormatError(error, showStack) ==
    /\ op' = [ name |-> "formatError", error |-> error, showStack |-> showStack,
               result |-> formatError(error, showStack) ]
    /\ UNCHANGED <<trackerVars, call, batch, watcher, life>>

NextFunctions ==
    \/ \E dateMs \in WeekProbeDates : CallGetWeekStart(dateMs)
    \/ \E currentWeek \in MockReports, previousWeek \in MockReports :
          CallCalculateWeekChange(currentWeek, previousWeek)
    \/ \E error \in ErrorValues, showStack \in BOOLEAN :
          CallFormatError(error, showStack)

SpecFunctions == Init /\ [][NextFunctions]_vars

(***************************************************************************)
(* createIdleWatcher (capture/idle.ts): one watcher, its closure variables *)
(* timer and wasIdle, the intervals registered with setInterval and not    *)
(* cleared, and the runs of check() suspended at await checkIdleState.     *)
(* A run of check() reads the idle time while suspended; its state is      *)
(* computed, compared with wasIdle and reported when it resumes.  checked  *)
(* lists the readings in the order in which the runs resumed, calls the    *)
(* arguments of onIdleChange, log the start() and stop() calls.            *)
(***************************************************************************)
\* what getIdleTime can return: below, at and above the threshold
WatcherReadings == IdleReadings \cup {idleThresholdSeconds + 100}

\* createIdleWatcher(config, onIdleChange)
InitWatcher ==
    /\ TrackerInit
    /\ call = CallIdle
    /\ batch = BatchIdle
    /\ op = NoOp
    /\ watcher = [WatcherIdle EXCEPT !.pc = "created"]
    /\ life = LifeIdle

\* check() runs up to "await checkIdleState(config)"
BeginCheck(w) ==
    [ w EXCEPT !.started = @ + 1, !.inFlight = @ \cup {w.started + 1} ]

\* a start() that does not look at timer
WatcherStartUnguarded ==
    /\ watcher.pc = "created"
    /\ Len(watcher.log) < MaxWatcherCalls
    /\ watcher.started < MaxChecks
    /\ watcher' = [ BeginCheck(watcher) EXCEPT
                      !.timer = Some(watcher.nextTimer),
                      !.intervals = @ \cup {watcher.nextTimer},
                      !.nextTimer = @ + 1,
                      !.log = Append(@, "start") ]
    /\ UNCHANGED <<trackerVars, call, batch, op, life>>

\* start: if (!timer) { check(); timer = setInterval(check, checkInterval) }
WatcherStart ==
    /\ watcher.pc = "created"
    /\ Len(watcher.log) < MaxWatcherCalls
    /\ IsNull(watcher.timer) => watcher.started < MaxChecks
    /\ watcher' =
          IF IsNull(watcher.timer)
          THEN [ BeginCheck(watcher) EXCEPT
                   !.timer = Some(watcher.nextTimer),
                   !.intervals = @ \cup {watcher.nextTimer},
                   !.nextTimer = @ + 1,
                   !.log = Append(@, "start") ]
          ELSE [ watcher EXCEPT !.log = Append(@, "start") ]
    /\ UNCHANGED <<trackerVars, call, batch, op, life>>

\* stop: if (timer) { clearInterval(timer); timer = null }
WatcherStop ==
    /\ watcher.pc = "created"
    /\ Len(watcher.log) < MaxWatcherCalls
    /\ watcher' =
          IF ~IsNull(watcher.timer)
          THEN [ watcher EXCEPT
                   !.intervals = @ \ {Value(watcher.timer)},
                   !.timer = Null,
                   !.log = Append(@, "stop") ]
          ELSE [ watcher EXCEPT !.log = Append(@, "stop") ]
    /\ UNCHANGED <<trackerVars, call, batch, op, life>>

\* an interval registered by setInterval(check, checkInterval) fires
WatcherIntervalFires(t) ==
    /\ t \in watcher.intervals
    /\ watcher.started < MaxChecks
    /\ watcher' = BeginCheck(watcher)
    /\ UNCHANGED <<trackerVars, call, batch, op, life>>

\* a check() that reports every state it computes
WatcherCheckResumesAlwaysCalling(k, idleSeconds) ==
    /\ k \in watcher.inFlight
    /\ watcher' =
          [ watcher EXCEPT
              !.inFlight = @ \ {k},
              !.checked = Append(@, idleSeconds),
              !.wasIdle = checkIdleState(idleSeconds),
              !.calls = Append(@, [ isIdle |-> checkIdleState(idleSeconds),
                                    idleSeconds |-> idleSeconds ]) ]
    /\ UNCHANGED <<trackerVars, call, batch, op, life>>

\* run k of check() resumes with the state checkIdleState computed:
\* if (state.isIdle !== wasIdle) { wasIdle = state.isIdle; onIdleChange(...) }
WatcherCheckResumes(k, idleSeconds) ==
    /\ k \in watcher.inFlight
    /\ watcher' =
          IF checkIdleState(idleSeconds) # watcher.wasIdle
          THEN [ watcher EXCEPT
                   !.inFlight = @ \ {k},
                   !.checked = Append(@, idleSeconds),
                   !.wasIdle = checkIdleState(idleSeconds),
                   !.calls = Append(@, [ isIdle |-> checkIdleState(idleSeconds),
                                         idleSeconds |-> idleSeconds ]) ]
          ELSE [ watcher EXCEPT
                   !.inFlight = @ \ {k},
                   !.checked = Append(@, idleSeconds) ]
    /\ UNCHANGED <<trackerVars, call, batch, op, life>>

NextWatcher ==
    \/ WatcherStart
    \/ WatcherStop
    \/ \E t \in watcher.intervals : WatcherIntervalFires(t)
    \/ \E k \in watcher.inFlight, idleSeconds \in WatcherReadings :
          WatcherCheckResumes(k, idleSeconds)

SpecWatcher == InitWatcher /\ [][NextWatcher]_vars

(***************************************************************************)
(* The life of tracker processes (src/index.ts startTracker, stopTracker   *)
(* and the shutdown handler) around the isRunning flag that                *)
(* config/settings.ts keeps in config.json.  Of a process the model keeps  *)
(* where startTracker stands, the isRunning value it loaded, its store     *)
(* handle (storage/database.ts db), whether its capture interval and its   *)
(* idle watcher are live, whether a captureAndAnalyze and a classification *)
(* are in flight, and whether the store was used on a closed handle.  The  *)
(* capture cycle itself is the subject of Spec.                            *)
(***************************************************************************)
Procs == 1..MaxProcs

ProcNone ==
    [ pc |-> "none", configIsRunning |-> FALSE, db |-> "none", timer |-> FALSE,
      idleWatcher |-> FALSE, shutdown |-> "none", capturing |-> FALSE,
      analysing |-> FALSE, closedUse |-> FALSE ]

InitLifecycle ==
    /\ TrackerInit
    /\ call = CallIdle
    /\ batch = BatchIdle
    /\ op = NoOp
    /\ watcher = WatcherIdle
    /\ life = [LifeIdle EXCEPT !.procs = [p \in Procs |-> ProcNone]]

\* getDatabase(): throws when db is null
UseStore(proc) ==
    IF proc.db = "open" THEN proc ELSE [proc EXCEPT !.closedUse = TRUE]

\* the capture loop of a process is active from its first capture until its
\* interval is cleared or the process ends
LoopActive(proc) ==
    /\ proc.pc \in {"initialCapture", "running"}
    /\ proc.shutdown = "none"

\* the start command begins a process, which suspends at await loadConfig()
CliStart(p) ==
    /\ life.procs[p].pc = "none"
    /\ \A q \in 1..(p - 1) : life.procs[q].pc # "none"
    /\ life' = [life EXCEPT !.procs[p].pc = "loadConfig"]
    /\ UNCHANGED <<trackerVars, call, batch, op, watcher>>

\* loadConfig(); ensureDirectories; initDatabase;
\* if (config.isRunning) return -- and the process ends
StartLoadsConfig(p) ==
    /\ life.procs[p].pc = "loadConfig"
    /\ life' = [ life EXCEPT
                   !.procs[p].configIsRunning = life.isRunning,
                   !.procs[p].db = "open",
                   !.procs[p].pc = IF life.isRunning THEN "exited"
                                   ELSE "updateConfig" ]
    /\ UNCHANGED <<trackerVars, call, batch, op, watcher>>

\* await updateConfig({ isRunning: true }); idleWatcher.start();
\* await captureAndAnalyze(config)
StartMarksRunning(p) ==
    /\ life.procs[p].pc = "updateConfig"
    /\ life' = [ life EXCEPT
                   !.isRunning = TRUE,
                   !.procs[p].idleWatcher = TRUE,
                   !.procs[p].capturing = TRUE,
                   !.procs[p].pc = "initialCapture" ]
    /\ UNCHANGED <<trackerVars, call, batch, op, watcher>>

\* a captureAndAnalyze in flight writes to the store, starts a
\* classification it does not await, and returns; after the initial one
\* startTracker goes on to setInterval and process.on("SIGINT" / "SIGTERM")
ProcCaptureStore(p) ==
    /\ life.procs[p].pc \in {"initialCapture", "running"}
    /\ life.procs[p].capturing
    /\ life' = [ life EXCEPT
                   !.procs[p] =
                      [ UseStore(@) EXCEPT
                          !.capturing = FALSE,
                          !.analysing = TRUE,
                          !.timer = IF @ \/ life.procs[p].pc = "initialCapture"
                                    THEN TRUE ELSE FALSE,
                          !.pc = "running" ] ]
    /\ UNCHANGED <<trackerVars, call, batch, op, watcher>>

\* the capture interval fires
ProcTick(p) ==
    /\ life.procs[p].pc = "running"
    /\ life.procs[p].timer
    /\ ~life.procs[p].capturing
    /\ life' = [life EXCEPT !.procs[p].capturing = TRUE]
    /\ UNCHANGED <<trackerVars, call, batch, op, watcher>>

\* analyzeTask(...).then((analysis) => updateEntryAnalysis(...))
ProcAnalysisSettles(p) ==
    /\ life.procs[p].pc \in {"initialCapture", "running"}
    /\ life.procs[p].analysing
    /\ life' = [ life EXCEPT
                   !.procs[p] = [UseStore(@) EXCEPT !.analysing = FALSE] ]
    /\ UNCHANGED <<trackerVars, call, batch, op, watcher>>

\* SIGINT or SIGTERM reaches a process.  With the handler registered,
\* shutdown runs clearInterval(timer); idleWatcher.stop() and suspends at
\* await updateConfig({ isRunning: false }); before that the signal ends
\* the process
Signal(p) ==
    /\ life.commands < MaxCommands
    /\ life.procs[p].pc \in {"loadConfig", "updateConfig", "initialCapture",
                             "running"}
    /\ life' = [ life EXCEPT
                   !.commands = @ + 1,
                   !.procs[p] =
                      IF @.pc = "running"
                      THEN [ @ EXCEPT !.timer = FALSE, !.idleWatcher = FALSE,
                                      !.shutdown = "updateConfig" ]
                      ELSE [ @ EXCEPT !.pc = "killed" ] ]
    /\ UNCHANGED <<trackerVars, call, batch, op, watcher>>

\* a shutdown that closes the store and leaves the process running
ShutdownFinishesWithoutExit(p) ==
    /\ life.procs[p].pc = "running"
    /\ life.procs[p].shutdown = "updateConfig"
    /\ life' = [ life EXCEPT
                   !.isRunning = FALSE,
                   !.procs[p].db = "closed",
                   !.procs[p].shutdown = "done" ]
    /\ UNCHANGED <<trackerVars, call, batch, op, watcher>>

\* shutdown resumes: the flag is written, then closeDatabase();
\* process.exit(0) without a suspension in between
ShutdownFinishes(p) ==
    /\ life.procs[p].pc = "running"
    /\ life.procs[p].shutdown = "updateConfig"
    /\ life' = [ life EXCEPT
                   !.isRunning = FALSE,
                   !.procs[p].db = "closed",
                   !.procs[p].shutdown = "done",
                   !.procs[p].pc = "exited" ]
    /\ UNCHANGED <<trackerVars, call, batch, op, watcher>>

\* the stop command (stopTracker): if (!config.isRunning) return;
\* await updateConfig({ isRunning: false })
CliStop ==
    /\ life.commands < MaxCommands
    /\ life' = [ life EXCEPT
                   !.commands = @ + 1,
                   !.isRunning = IF @ THEN FALSE ELSE @ ]
    /\ UNCHANGED <<trackerVars, call, batch, op, watcher>>

NextLifecycle ==
    \/ \E p \in Procs : CliStart(p)
    \/ \E p \in Procs : StartLoadsConfig(p)
    \/ \E p \in Procs : StartMarksRunning(p)
    \/ \E p \in Procs : ProcCaptureStore(p)
    \/ \E p \in Procs : ProcTick(p)
    \/ \E p \in Procs : ProcAnalysisSettles(p)
    \/ \E p \in Procs : Signal(p)
    \/ \E p \in Procs : ShutdownFinishes(p)
    \/ CliStop

SpecLifecycle == InitLifecycle /\ [][NextLifecycle]_vars
(***************************************************************************)
(* Verification of the Entry Store and Sampler claims.                     *)
(***************************************************************************)
TimeOf(row) == NewDate(row.timestamp)
OpenRows == { k \in 1..Len(entries) : IsNull(entries[k].durationSeconds) }

\* C1: after N captures with strictly increasing timestamps, each a
\* back-fill followed by an insert, entry i < N holds the whole seconds
\* between its timestamp and the next entry's (the floor of the difference
\* in ms over 1000) and entry N holds a null duration.  Checked in the
\* states that follow a capture, up to the next back-fill, when invocations
\* do not overlap.
C1_BackfilledDurations ==
    (logged = "Captured" /\ pc[1] # "captureScreenshot") =>
        /\ entries # << >>
        /\ \A i \in 1..(Len(entries) - 1) :
              /\ TimeOf(entries[i]) < TimeOf(entries[i + 1])
              /\ ~IsNull(entries[i].durationSeconds)
              /\ LET d == Value(entries[i].durationSeconds)
                     gap == TimeOf(entries[i + 1]) - TimeOf(entries[i])
                 IN d * 1000 <= gap /\ gap < (d + 1) * 1000
        /\ IsNull(entries[Len(entries)].durationSeconds)

\* C1 witness: two captures with a cycle skipped or failed between them,
\* so that the gap of 600800 ms is stored as 600 seconds
C1_Witness ==
    /\ logged = "Captured"
    /\ pc[1] = "idle"
    /\ Len(entries) >= 2
    /\ entries[1].durationSeconds = Some(600)
    /\ IsNull(entries[Len(entries)].durationSeconds)

\* C2: in every reachable state of the store at most one entry has a null
\* durationSeconds and it is the most recent entry, also when a cycle
\* starts while an earlier one is suspended at an await.
C2_AtMostOneOpenEntry ==
    /\ Cardinality(OpenRows) <= 1
    /\ \A k \in OpenRows :
          \A j \in 1..Len(entries) : TimeOf(entries[j]) <= TimeOf(entries[k])

\* C3: every stored non-null durationSeconds is >= 0 and the totals of
\* getDailySummary are not lowered by a negative duration.
C3_DurationsNonNegative ==
    /\ \A k \in 1..Len(entries) :
          ~IsNull(entries[k].durationSeconds)
              => Value(entries[k].durationSeconds) >= 0
    /\ getDailySummary(entries, 0).totalTrackedSeconds >= 0
    /\ getDailySummary(entries, 0).activeSeconds >= 0
    /\ getDailySummary(entries, 0).idleSeconds >= 0

\* C4: once an entry's durationSeconds has changed from null to a value no
\* later Sampler cycle changes it again, also after a cycle that failed
\* between the back-fill and the insert.
C4_DurationWrittenOnce ==
    [][ \A k \in 1..Len(entries) :
            ~IsNull(entries[k].durationSeconds)
                => entries'[k].durationSeconds = entries[k].durationSeconds ]_vars

\* the three lines captureAndAnalyze logs when a gate skips the cycle
SkipLines ==
    { "Skipping capture - user is idle", "No active window detected",
      "Skipping excluded app" }

\* the app name contains an exclusion-list entry, letter case ignored
ContainsExcludedIgnoringCase(appName) ==
    \E k \in 1..Len(excludedApps) :
       \E off \in 0..(Len(appName) - Len(excludedApps[k])) :
          \A j \in 1..Len(excludedApps[k]) :
             LowerChar(appName[off + j]) = LowerChar(excludedApps[k][j])

\* the invocation in slot c resumed in this step
Resumed(c) == pc[c] # "idle" /\ pc'[c] # pc[c]

\* this step ended the invocation in slot c without touching the store
SkippedBy(c) ==
    /\ pc'[c] = "idle"
    /\ logged' \in SkipLines
    /\ entries' = entries
    /\ nextId' = nextId
    /\ pending' = pending

\* C5: a Sampler cycle skipped by one of its gates (user idle, no active
\* window, app name containing an exclusion-list entry as a
\* case-insensitive substring) leaves the Entry Store unchanged: nothing
\* is inserted, the open entry is not back-filled, no classification is
\* dispatched; and each gate does skip the cycle.
C5_SkippedCycleLeavesStore ==
    [][ \A c \in Slots :
          /\ (Resumed(c) /\ pc[c] = "checkIdleState"
                 /\ idleReading' >= idleThresholdSeconds) => SkippedBy(c)
          /\ (Resumed(c) /\ pc[c] = "getActiveWindow"
                 /\ IsNull(probedWindow')) => SkippedBy(c)
          /\ (Resumed(c) /\ pc[c] = "getActiveWindow"
                 /\ ~IsNull(probedWindow')
                 /\ ContainsExcludedIgnoringCase(Value(probedWindow').appName))
                => SkippedBy(c)
          /\ (Resumed(c) /\ pc'[c] = "idle" /\ logged' \in SkipLines)
                => SkippedBy(c) ]_vars

\* C5 witness: the excluded app (Finder against the entry FIND) was in
\* front while an entry was open, and the cycle was skipped
C5_Witness ==
    /\ logged = "Skipping excluded app"
    /\ probedWindow = Some([appName |-> AppFinder, title |-> "Downloads"])
    /\ entries # << >>
    /\ IsNull(entries[Len(entries)].durationSeconds)
    /\ \A c \in Slots : pc[c] = "idle"

Rows(rows) == { rows[k] : k \in 1..Len(rows) }

SameCapture(r, q) ==
    /\ q.timestamp = r.timestamp
    /\ q.appName = r.appName
    /\ q.windowTitle = r.windowTitle
    /\ q.screenshotPath = r.screenshotPath
    /\ q.isIdle = r.isIdle

\* C6: after an entry is inserted no store operation changes its id,
\* timestamp, appName, windowTitle, screenshotPath or isIdle (only
\* durationSeconds, the classification fields and manualProjectId change),
\* and the ids assigned by insert are unique and strictly increasing.
C6_CaptureFieldsImmutable ==
    /\ [](\A i, j \in 1..Len(entries) : i < j => entries[i].id < entries[j].id)
    /\ [][ /\ \A r \in Rows(entries) :
                \E q \in Rows(entries') : q.id = r.id /\ SameCapture(r, q)
           /\ \A q \in Rows(entries') :
                (\A r \in Rows(entries) : r.id # q.id)
                    => \A r \in Rows(entries) : r.id < q.id ]_vars

\* C6 witness: an entry that was back-filled, classified and assigned a
\* project by hand
C6_Witness ==
    \E k \in 1..Len(entries) :
       /\ ~IsNull(entries[k].durationSeconds)
       /\ ~IsNull(entries[k].aiAnalysis)
       /\ ~IsNull(entries[k].manualProjectId)
       /\ k < Len(entries)

\* C7: a Sampler cycle is complete as soon as the new entry is inserted and
\* never waits for its classification: the step that inserts returns with
\* the classification pending, and a pending classification never keeps
\* the next tick from starting an invocation.
C7_CycleDoesNotAwaitClassification ==
    /\ [][ \A c \in Slots :
             (Resumed(c) /\ Len(entries') = Len(entries) + 1) =>
                /\ pc'[c] = "idle"
                /\ \E p \in pending' \ pending :
                      p.entryId = entries'[Len(entries')].id
                /\ IsNull(entries'[Len(entries')].aiAnalysis) ]_vars
    /\ [](\A c \in Slots :
             (ticks < MaxTicks /\ pc[c] = "idle"
                /\ (\A b \in Slots : b < c => pc[b] # "idle")
                /\ (ticks = 1 => \A b \in Slots : pc[b] = "idle")
                /\ pending # {})
                => ENABLED Tick(c))

\* C7 witness: a classification is still pending for an entry that later
\* cycles have already closed and followed with two further entries
C7_Witness ==
    \E p \in pending :
       \E k \in 1..Len(entries) :
          /\ entries[k].id = p.entryId
          /\ ~IsNull(entries[k].durationSeconds)
          /\ IsNull(entries[k].aiAnalysis)
          /\ Len(entries) >= k + 2

(***************************************************************************)
(* Verification of the Classifier Gateway claims.                          *)
(***************************************************************************)
\* the fallback analysis as the specification words it
FallbackCategoryTable(appCategory) ==
    CASE appCategory = "browser" -> "research"
      [] appCategory = "editor" -> "coding"
      [] appCategory = "terminal" -> "coding"
      [] appCategory = "communication" -> "communication"
      [] appCategory = "design" -> "design"
      [] OTHER -> "other"

FallbackAnalysis(windowInfo, appCategory) ==
    [ taskDescription |-> <<"Working in ", windowInfo.appName>>,
      suggestedProjectId |-> Null,
      confidence |-> 30,
      category |-> FallbackCategoryTable(appCategory),
      notes |-> Some("Fallback analysis - AI unavailable") ]

\* backend texts that are empty or hold no parseable JSON object
UnparseableTexts ==
    { << >>,
      << Prose >>,
      << LBrace, Prose, RBrace >>,
      << LBrace, LBrace, Member("category", Some("coding")), RBrace, RBrace >> }

\* the call ended on a backend failure: nothing could be sent, or the last
\* reply was an exception, a non-OK response, or an empty or malformed text
BackendFailed ==
    \/ call.replies = << >>
    \/ LET last == call.replies[Len(call.replies)]
       IN last.status # "ok" \/ last.text \in UnparseableTexts

\* C8: for every appCategory and every way the backend can fail, analyzeTask
\* resolves, never rejects, and returns the fallback analysis: "Working in
\* {appName}", no project, confidence 0.3, the fallback notes, and the
\* category of the table browser->research, editor->coding,
\* terminal->coding, communication->communication, design->design,
\* anything else->other.
C8_FallbackOnEveryFailure ==
    call.pc = "settled" =>
        /\ call.state = "fulfilled"
        /\ BackendFailed =>
              call.value = FallbackAnalysis(call.windowInfo, call.appCategory)

\* C9: each call of analyzeTask sends at most one request to the
\* classification backend, on either backend, with or without a
\* screenshot.
C9_SingleRequest == Len(call.requests) <= 1

\* C9 as amended: a call never repeats a request.  The hosted-agent backend
\* and the proxy backend without a screenshot send at most one request.  The
\* proxy backend with a screenshot sends the vision request and, only when
\* that request fails (exception, non-OK response, unreadable body), one
\* text-only request: at most two requests, the second never retried.
C9_NoRetryOneTextFallback ==
    /\ Len(call.requests) <= 2
    /\ \A i, j \in 1..Len(call.requests) :
          i # j => call.requests[i] # call.requests[j]
    /\ Len(call.requests) = 2 =>
          /\ call.requests = <<"vision", "text">>
          /\ ~IsNull(call.screenshotPath)
          /\ call.replies # << >>
          /\ call.replies[1].status \in Failures
    /\ (IsNull(call.screenshotPath)
          \/ \E i \in 1..Len(call.requests) : call.requests[i] = "sdk")
          => Len(call.requests) <= 1
    /\ call.pc = "settled" => Len(call.replies) = Len(call.requests)

\* C9 witness: the vision request failed, the text-only request was sent
\* and answered, and the call settled
C9_Witness ==
    /\ call.pc = "settled"
    /\ call.requests = <<"vision", "text">>
    /\ call.replies[1].status = "nonOK"
    /\ Len(call.replies) = 2

\* C10: every TaskAnalysis analyzeTask returns, on the success path and on
\* the fallback path, has a category of the closed set; a backend answer
\* whose category is missing or not in the set yields "other".
C10_CategoryInClosedSet ==
    (call.pc = "settled" /\ call.state = "fulfilled") =>
        call.value.category \in
            { "coding", "communication", "research", "documentation",
              "meeting", "design", "admin", "break", "other" }

(***************************************************************************)
(* Verification of the batch classification claims.                        *)
(***************************************************************************)
BatchIds == { batch.entries[k].id : k \in 1..Len(batch.entries) }
\* the number of batches of 3 over the entries handed in
BatchCount == (Len(batch.entries) + 2) \div 3
\* the batch the k-th entry belongs to
BatchOf(k) == (k - 1) \div 3 + 1

\* C11: during batchAnalyzeTasks at most 3 classification calls are in
\* flight; the calls of a batch start together, only when every call of
\* the earlier batches has completed and, after the first batch, only when
\* the 500 ms delay has elapsed; the call returns straight after the last
\* batch, having waited once between consecutive batches and not after the
\* last one.
C11_BatchConcurrencyCap ==
    /\ [](Cardinality(batch.inFlight) <= 3)
    /\ [][ (batch'.inFlight \ batch.inFlight # {}) =>
              /\ batch.inFlight = {}
              /\ batch'.inFlight =
                    { batch.entries[k].id :
                        k \in { a \in 1..Len(batch.entries) :
                                  BatchOf(a) = batch'.chunk } }
              /\ \A k \in 1..Len(batch.entries) :
                    BatchOf(k) < batch'.chunk =>
                       batch.entries[k].id \in DOMAIN batch.results
              /\ batch'.chunk > 1 =>
                    /\ batch.pc = "setTimeout"
                    /\ clock' = clock + 500 ]_vars
    /\ [][ (batch'.pc = "returned" /\ batch.pc # "returned") =>
              batch.pc # "setTimeout" ]_vars
    /\ [](batch.pc = "returned" =>
             /\ batch.timers = (IF BatchCount = 0 THEN 0 ELSE BatchCount - 1)
             /\ clock = 500 * batch.timers)

\* C11 witness: a call over 7 entries has returned after three batches and
\* two delays
C11_Witness ==
    /\ batch.pc = "returned"
    /\ Len(batch.entries) = 7
    /\ batch.chunk = 3
    /\ batch.timers = 2

\* C12: batchAnalyzeTasks over entries with distinct ids returns, and the
\* map it returns holds one analysis for every input id, whichever
\* classifications failed and in whatever order the calls of a batch
\* completed; the entries whose classification failed hold the fallback
\* analysis, the others a classified one.
C12_BatchResultsComplete ==
    /\ [](batch.pc = "returned" =>
             /\ DOMAIN batch.results = BatchIds
             /\ \A k \in 1..Len(batch.entries) :
                   LET e == batch.entries[k]
                   IN IF e.id \in batch.failed
                      THEN batch.results[e.id]
                              = FallbackAnalysis(e.windowInfo, e.appCategory)
                      ELSE /\ batch.results[e.id].category \in validCategories
                           /\ batch.results[e.id].notes
                                 # Some("Fallback analysis - AI unavailable"))
    /\ <>(batch.pc = "returned")

\* C12 witness: a call over 4 entries (two batches) has returned and the
\* classification of the second entry was the only one to fail
C12_Witness ==
    /\ batch.pc = "returned"
    /\ Len(batch.entries) = 4
    /\ batch.failed = {BatchEntryId(2)}
    /\ DOMAIN batch.results = BatchIds

(***************************************************************************)
(* Verification of the Entry Store and Aggregator claims under direct use. *)
(***************************************************************************)
HasId(rows, id) == \E k \in 1..Len(rows) : rows[k].id = id
RowOf(rows, id) == rows[CHOOSE k \in 1..Len(rows) : rows[k].id = id]

\* C13: updateEntryAnalysis with id i changes at most taskDescription,
\* projectId and aiAnalysis of the entry with id i; its durationSeconds,
\* manualProjectId and capture fields and every other entry stay as they
\* were.  When no entry has id i (never inserted, or deleted by
\* deleteOldEntries in the meantime) the call is accepted, the store is
\* unchanged and no entry is created.
C13_PatchTouchesOnlyClassification ==
    /\ [][ op'.name = "updateEntryAnalysis" =>
              /\ Len(entries') = Len(entries)
              /\ \A k \in 1..Len(entries) :
                    IF entries[k].id = op'.entryId
                    THEN entries'[k] =
                            [entries[k] EXCEPT
                               !.taskDescription = entries'[k].taskDescription,
                               !.projectId = entries'[k].projectId,
                               !.aiAnalysis = entries'[k].aiAnalysis]
                    ELSE entries'[k] = entries[k]
              /\ ~HasId(entries, op'.entryId) => entries' = entries ]_vars
    /\ [](\A i \in 1..nextId, analysis \in PatchAnalyses :
             ~HasId(entries, i) => ENABLED StorePatch(i, analysis))

\* C13 witness: a classification was patched onto the id of an entry that
\* deleteOldEntries had removed, while a later entry is still stored
C13_Witness ==
    /\ op.name = "updateEntryAnalysis"
    /\ op.entryId < nextId
    /\ ~HasId(entries, op.entryId)
    /\ entries # << >>

\* the effective project as the specification words it
EffectiveProject(row) ==
    IF row.manualProjectId # Null THEN row.manualProjectId[1]
    ELSE IF row.projectId # Null THEN row.projectId[1]
    ELSE "unassigned"

\* the stored rows of the day that holds dateMs
DayRows(rows, dateMs) ==
    { k \in 1..Len(rows) :
        TimeOf(rows[k]) \div MsPerDay = dateMs \div MsPerDay }

RECURSIVE SumDurations(_, _)
SumDurations(rows, ks) ==
    IF ks = {} THEN 0
    ELSE LET k == CHOOSE a \in ks : TRUE
         IN (IF rows[k].durationSeconds = Null THEN 0
             ELSE rows[k].durationSeconds[1])
            + SumDurations(rows, ks \ {k})

\* the bucket of a breakdown for a key, << >> when the key has none
BucketsOf(breakdown, key) ==
    SelectSeq(breakdown, LAMBDA item : item.key = key)

\* C14: once manualProjectId is set, no classification patch, before or
\* after it, clears or replaces it, and getDailySummary counts every
\* non-idle entry under its effective project: manualProjectId when set,
\* else projectId, else "unassigned".
C14_ManualProjectWins ==
    /\ [][ op'.name # "setManualProject" =>
              \A k \in 1..Len(entries) :
                 (entries[k].manualProjectId # Null
                    /\ HasId(entries', entries[k].id)) =>
                       RowOf(entries', entries[k].id).manualProjectId
                          = entries[k].manualProjectId ]_vars
    /\ [](\A dateMs \in SummaryDates :
            \A key \in {"p1", "p2", "unassigned"} :
               LET counted == { k \in DayRows(entries, dateMs) :
                                  /\ ~entries[k].isIdle
                                  /\ EffectiveProject(entries[k]) = key }
                   buckets == BucketsOf(
                      getDailySummary(entries, dateMs).projectBreakdown, key)
               IN IF counted = {}
                  THEN buckets = << >>
                  ELSE buckets =
                         << [ key |-> key,
                              seconds |-> SumDurations(entries, counted),
                              entries |-> Cardinality(counted) ] >>)

\* C14 witness: the classification patch arrived after the manual override:
\* the entry holds the classified project p2 and the manual project p1
C14_Witness ==
    /\ op.name = "updateEntryAnalysis"
    /\ HasId(entries, op.entryId)
    /\ RowOf(entries, op.entryId).manualProjectId = Some("p1")
    /\ RowOf(entries, op.entryId).projectId = Some("p2")

\* the ids of a list of entries
IdSet(list) == { list[j].id : j \in 1..Len(list) }

\* C15: getTimeEntries with a projectId returns exactly the entries of the
\* time range whose effective project (manualProjectId if present, else
\* projectId) is that project; an entry classified under the project but
\* manually assigned to another one is not returned.
C15_FilterByEffectiveProject ==
    (op.name = "getTimeEntries" /\ op.projectId # Null) =>
        IdSet(op.result) =
           { entries[k].id :
               k \in { a \in 1..Len(entries) :
                         /\ op.startMs <= TimeOf(entries[a])
                         /\ TimeOf(entries[a]) < op.endMs
                         /\ EffectiveProject(entries[a]) = op.projectId[1] } }

C17_ActivePlusIdleIsTotal ==
    op.name = "getDailySummary" =>
        /\ op.result.activeSeconds + op.result.idleSeconds
              = op.result.totalTrackedSeconds
        /\ op.result.totalTrackedSeconds
              = SumDurations(entries,
                             { k \in DayRows(entries, op.dateMs) :
                                 entries[k].durationSeconds # Null })
        /\ op.result.idleSeconds
              = SumDurations(entries,
                             { k \in DayRows(entries, op.dateMs) :
                                 entries[k].isIdle })

\* C17 witness: the summary of a Tuesday that holds an idle entry of 3600 s
\* and a non-idle entry of 3600 s was taken: 3600 + 3600 = 7200
C17_Witness ==
    /\ op.name = "getDailySummary"
    /\ op.result.idleSeconds = 3600
    /\ op.result.activeSeconds = 3600
    /\ op.result.totalTrackedSeconds = 7200
    /\ Cardinality(DayRows(entries, op.dateMs)) = 2

\* the category a stored classification payload parses to, Null when the
\* payload is absent, is no JSON, or names no recognized category
CategoryOf(row) ==
    IF row.aiAnalysis = Null THEN Null
    ELSE IF ~JSONparseOk(row.aiAnalysis[1]) THEN Null
    ELSE IF JSONget(row.aiAnalysis[1], "category") = Null THEN Null
    ELSE IF JSONget(row.aiAnalysis[1], "category")[1] \in validCategories
         THEN JSONget(row.aiAnalysis[1], "category")
         ELSE Null

\* C18: categoryBreakdown of getDailySummary holds, for each recognized
\* category, the summed duration and the number of the non-idle entries of
\* the day whose aiAnalysis parses as JSON with that category (two coding
\* entries of 3600 s and 1800 s give coding = 5400 s, 2 entries), and no
\* bucket for a category that no such entry has.
C18_CategoryBreakdownFilled ==
    op.name = "getDailySummary" =>
        \A category \in validCategories :
           LET counted == { k \in DayRows(entries, op.dateMs) :
                              /\ ~entries[k].isIdle
                              /\ CategoryOf(entries[k]) = Some(category) }
               buckets == BucketsOf(op.result.categoryBreakdown, category)
           IN IF counted = {}
              THEN buckets = << >>
              ELSE buckets =
                     << [ key |-> category,
                          seconds |-> SumDurations(entries, counted),
                          entries |-> Cardinality(counted) ] >>

\* C19: inserting an idle entry adds its duration to idleSeconds and
\* totalTrackedSeconds of its day and to nothing else: activeSeconds and
\* the project, app and category buckets of every day stay as they were,
\* even when the entry carries a valid classification payload.
C19_IdleOnlyInIdleSeconds ==
    [][ (op'.name = "insertTimeEntry" /\ Len(entries') = Len(entries) + 1
           /\ entries'[Len(entries')].isIdle) =>
          \A dateMs \in SummaryDates :
             LET before == getDailySummary(entries, dateMs)
                 after == getDailySummary(entries', dateMs)
                 added ==
                    IF Len(entries') \in DayRows(entries', dateMs)
                    THEN IF entries'[Len(entries')].durationSeconds = Null
                         THEN 0
                         ELSE entries'[Len(entries')].durationSeconds[1]
                    ELSE 0
             IN /\ after.idleSeconds = before.idleSeconds + added
                /\ after.totalTrackedSeconds = before.totalTrackedSeconds + added
                /\ after.activeSeconds = before.activeSeconds
                /\ after.projectBreakdown = before.projectBreakdown
                /\ after.topApps = before.topApps
                /\ after.categoryBreakdown = before.categoryBreakdown ]_vars

\* C19 witness: an idle entry of 3600 s with a coding payload was inserted
\* on the day of a classified non-idle entry
C19_Witness ==
    /\ op.name = "insertTimeEntry"
    /\ Len(entries) = 2
    /\ ~entries[1].isIdle
    /\ entries[1].projectId = Some("p2")
    /\ entries[2].isIdle
    /\ entries[2].aiAnalysis = Some(CodingAnalysis)
    /\ entries[2].durationSeconds = Some(3600)
    /\ DayRows(entries, 5 * MsPerDay) = {1, 2}
    /\ getDailySummary(entries, 5 * MsPerDay).idleSeconds = 3600

\* the Monday 00:00:00 of the week (Monday to Sunday) that holds an instant
MondayOf(ms) ==
    LET n == ms \div MsPerDay
    IN (CHOOSE d \in (n - 6)..n : d % 7 = 4) * MsPerDay

\* the dates of a list of daily summaries, in order
RECURSIVE DatesOf(_)
DatesOf(list) ==
    IF list = << >> THEN << >> ELSE <<Head(list).date>> \o DatesOf(Tail(list))

\* C20: whatever date generateWeeklyReport is given (or when it is given
\* none and takes the current time), the report's weekStartDate is the
\* Monday 00:00:00 of the week holding that date, weekEndDate is that
\* Monday + 6 days at 23:59:59.999, and the seven daily summaries are those
\* of Monday to Sunday of that week.
C20_WeekStartNormalized ==
    op.name = "generateWeeklyReport" =>
        LET given == IF op.weekStartDate = Null THEN StoreNowMs
                     ELSE op.weekStartDate[1]
            monday == MondayOf(given)
        IN /\ op.result.weekStartDate = monday
           /\ op.result.weekEndDate = monday + 7 * MsPerDay - 1
           /\ DatesOf(op.result.dailySummaries)
                 = [ j \in 1..7 |-> monday + (j - 1) * MsPerDay ]

(***************************************************************************)
(* Weekly report, week arithmetic, idle watcher, shutdown, error text.     *)
(***************************************************************************)
\* the sum of one numeric field over a list of records
RECURSIVE SumOf(_, _)
SumOf(list, field) ==
    IF list = << >> THEN 0
    ELSE Head(list)[field] + SumOf(Tail(list), field)

SortedDescending(list) ==
    \A i \in 1..(Len(list) - 1) : list[i].seconds >= list[i + 1].seconds

KeysOnce(list) ==
    \A i, j \in 1..Len(list) : list[i].key = list[j].key => i = j

IsSunday(ms) == (ms \div MsPerDay) % 7 = 3
IsMonday(ms) == (ms \div MsPerDay) % 7 = 4

\* C22: getWeekStart of an instant is the Monday 00:00 of its
\* Monday-to-Sunday week, so two instants of one week have the same week
\* start; a Sunday goes back six days to the Monday before it, a Monday
\* stays on its own day, and applying getWeekStart to a week start gives
\* that week start again.
C22_WeekStartOfSameWeek ==
    op.name = "getWeekStart" =>
        /\ op.result = MondayOf(op.dateMs)
        /\ \A d2 \in WeekProbeDates :
              MondayOf(d2) = MondayOf(op.dateMs) => getWeekStart(d2) = op.result
        /\ IsSunday(op.dateMs) =>
              op.result = (op.dateMs \div MsPerDay - 6) * MsPerDay
        /\ IsMonday(op.dateMs) =>
              op.result = (op.dateMs \div MsPerDay) * MsPerDay
        /\ getWeekStart(op.result) = op.result

\* the last millisecond of Sunday 1970-01-11 maps to Monday 1970-01-05
C22_Witness ==
    /\ op.name = "getWeekStart"
    /\ op.dateMs = 10 * MsPerDay + (MsPerDay - 1)
    /\ op.result = 4 * MsPerDay

\* the projects of a report, and the hours of one of them (0 when absent)
ProjectsOf(report) ==
    { report.projectTotals[i].projectId : i \in 1..Len(report.projectTotals) }
HoursIn(report, projectId) ==
    IF projectId \in ProjectsOf(report)
    THEN (CHOOSE p \in { report.projectTotals[i]
                           : i \in 1..Len(report.projectTotals) }
             : p.projectId = projectId).seconds
    ELSE 0

\* C23: calculateWeekChange returns the difference of the total hours, a
\* percentage of 0 when the previous total is 0 and hoursChange /
\* previous.totalHours * 100 otherwise, and a change for every project of
\* either report, currentHours - previousHours with 0 for the side that
\* lacks the project.
C23_WeekChangeCoversBothWeeks ==
    op.name = "calculateWeekChange" =>
        LET cur == op.currentWeek
            prev == op.previousWeek
            r == op.result
        IN /\ r.hoursChange = cur.totalHours - prev.totalHours
           /\ IF prev.totalHours = 0
              THEN r.hoursChangePercent.num = 0
              ELSE /\ r.hoursChangePercent.num
                         = (cur.totalHours - prev.totalHours) * 100
                   /\ r.hoursChangePercent.den = prev.totalHours
           /\ \A p \in ProjectsOf(cur) \cup ProjectsOf(prev) :
                 \E i \in 1..Len(r.projectChanges) :
                    /\ r.projectChanges[i].key = p
                    /\ r.projectChanges[i].value
                          = HoursIn(cur, p) - HoursIn(prev, p)
           /\ \A i \in 1..Len(r.projectChanges) :
                 r.projectChanges[i].key \in ProjectsOf(cur) \cup ProjectsOf(prev)

\* C28: the text formatError returns has at most 1000 characters; when the
\* underlying text has more than 1000 characters the result is a truncation
\* of it that ends with "...".
C28_FormatErrorAtMostThousand ==
    op.name = "formatError" =>
        LET e == op.error
            underlying ==
               IF e.type = "Error"
               THEN IF op.showStack /\ e.stack # Null /\ e.stack[1] # << >>
                    THEN e.stack[1] ELSE e.message
               ELSE IF e.type = "string" THEN e.value
               ELSE IF e.json # Null THEN e.json[1] ELSE e.text
            n == Len(op.result)
        IN /\ n <= 1000
           /\ Len(underlying) > 1000 =>
                 /\ n >= 3
                 /\ SubSeq(op.result, n - 2, n) = <<".", ".", ".">>
                 /\ SubSeq(op.result, 1, n - 3) = SubSeq(underlying, 1, n - 3)
           /\ Len(underlying) <= 1000 => op.result = underlying

\* the checks of a list of readings whose state differs from the state of
\* the check before (from active before the first), as callback arguments
RECURSIVE TransitionsFrom(_, _)
TransitionsFrom(previous, readings) ==
    IF readings = << >> THEN << >>
    ELSE LET state == Head(readings) >= 300
         IN (IF state # previous
             THEN << [isIdle |-> state, idleSeconds |-> Head(readings)] >>
             ELSE << >>)
               \o TransitionsFrom(state, Tail(readings))

\* C24: the calls of the callback are exactly the checks whose state
\* (idleSeconds >= threshold) differs from the state of the check before,
\* starting from active, one call each and in that order; so the calls
\* alternate idle, active, idle, ...  Checks are taken in the order in which
\* their state is computed.
C24_CallbackOncePerTransition ==
    /\ watcher.calls = TransitionsFrom(FALSE, watcher.checked)
    /\ \A j \in 1..Len(watcher.calls) : watcher.calls[j].isIdle = (j % 2 = 1)

\* the readings 0, 0, 400, 400, 0 gave two calls: idle, then active
C24_Witness ==
    /\ watcher.checked = <<0, 0, 400, 400, 0>>
    /\ Len(watcher.calls) = 2
    /\ watcher.calls[1] = [isIdle |-> TRUE, idleSeconds |-> 400]
    /\ watcher.calls[2] = [isIdle |-> FALSE, idleSeconds |-> 0]

StartCalled == watcher'.log = Append(watcher.log, "start")
StopCalled == watcher'.log = Append(watcher.log, "stop")

\* C25: one watcher never has more than one polling timer.  A start() on a
\* started watcher adds no timer and begins no check; a start() on a stopped
\* one adds one timer and begins one check; a stop() on a stopped watcher
\* changes nothing; after a stop() no timer is left, so that a periodic
\* check begins only while the watcher is started.
C25_StartStopIdempotent ==
    [][ /\ Cardinality(watcher'.intervals) <= 1
        /\ (watcher'.timer = Null) = (watcher'.intervals = {})
        /\ StartCalled /\ watcher.timer # Null =>
              /\ watcher'.intervals = watcher.intervals
              /\ watcher'.timer = watcher.timer
              /\ watcher'.started = watcher.started
              /\ watcher'.inFlight = watcher.inFlight
        /\ StartCalled /\ watcher.timer = Null =>
              /\ Cardinality(watcher'.intervals) = 1
              /\ watcher'.started = watcher.started + 1
        /\ StopCalled /\ watcher.timer = Null =>
              watcher' = [watcher EXCEPT !.log = watcher'.log]
        /\ StopCalled =>
              /\ watcher'.intervals = {}
              /\ watcher'.timer = Null
              /\ watcher'.started = watcher.started
        /\ (watcher'.started # watcher.started /\ ~StartCalled) =>
              watcher.timer # Null
      ]_vars

\* start(), start(), stop() were called and one check was begun
C25_Witness ==
    /\ watcher.log = <<"start", "start", "stop">>
    /\ watcher.timer = Null
    /\ watcher.intervals = {}
    /\ watcher.started = 1

\* C26: when a process has closed its store handle in a signal-driven
\* shutdown, its capture interval and its idle watcher were stopped before;
\* a shutdown waiting to finish can finish whether or not a classification
\* or a capture is in flight; and the store is never used on a closed
\* handle.
C26_ShutdownOrder ==
    [][ \A p \in Procs :
          /\ life'.procs[p].db = "closed" =>
                /\ ~life.procs[p].timer /\ ~life.procs[p].idleWatcher
                /\ ~life'.procs[p].timer /\ ~life'.procs[p].idleWatcher
          /\ (life.procs[p].pc = "running"
                /\ life.procs[p].shutdown = "updateConfig") =>
                ENABLED ShutdownFinishes(p)
          /\ ~life'.procs[p].closedUse
      ]_vars

\* a process was shut down by a signal while a classification was in
\* flight; its handle is closed and the classification was abandoned
C26_Witness ==
    \E p \in Procs :
       /\ life.procs[p].pc = "exited"
       /\ life.procs[p].shutdown = "done"
       /\ life.procs[p].db = "closed"
       /\ life.procs[p].analysing
       /\ life.procs[p].capturing
       /\ ~life.procs[p].timer
       /\ ~life.procs[p].idleWatcher

ActiveLoops == { p \in Procs : LoopActive(life.procs[p]) }

\* C29: at most one capture loop is active at any time, and the persisted
\* isRunning flag is true whenever a capture loop is active.
C29_SingleCaptureLoop ==
    /\ Cardinality(ActiveLoops) <= 1
    /\ ActiveLoops # {} => life.isRunning

\* C27: no resumption of a Sampler cycle leaves captureAndAnalyze other
\* than by suspending at its next await or by returning; a cycle that logs
\* "Capture error" returns without a new entry or classification; after it
\* the next tick can start a cycle whenever a tick is due; and a cycle
\* suspended at the screenshot can go on to insert an entry whose
\* screenshot reference is null, every cycle that gets past the screenshot
\* without a store failure inserting one entry.
C27_FailureStaysInsideCycle ==
    /\ [][ \A c \in Slots :
             /\ (pc[c] # "idle" /\ pc'[c] # pc[c]) =>
                   pc'[c] \in {"idle", "getActiveWindow", "captureScreenshot"}
             /\ (pc[c] # "idle" /\ pc'[c] = "idle"
                   /\ logged' = "Capture error") =>
                   /\ Len(entries') = Len(entries)
                   /\ nextId' = nextId
                   /\ pending' = pending
             /\ (pc[c] = "captureScreenshot" /\ pc'[c] # pc[c]
                   /\ logged' # "Capture error") =>
                   /\ Len(entries') = Len(entries) + 1
                   /\ entries'[Len(entries')].id = nextId ]_vars
    /\ [](\A c \in Slots :
             pc[c] = "captureScreenshot" =>
                ENABLED (InsertEntry(c)
                           /\ IsNull(entries'[Len(entries')].screenshotPath)))
    /\ []((/\ logged = "Capture error"
           /\ ticks < MaxTicks
           /\ \E c \in Slots : pc[c] = "idle"
           /\ ticks = 1 => \A b \in Slots : pc[b] = "idle")
             => ENABLED (\E c \in Slots : Tick(c)))

\* the first cycle inserted an entry without a screenshot, the second one
\* failed, and the third is past the back-fill, which gave the entry the
\* 600 seconds up to it
C27_Witness ==
    /\ logged = "Capture error"
    /\ ticks = 3
    /\ \E c \in Slots : pc[c] = "captureScreenshot"
    /\ Len(entries) = 1
    /\ IsNull(entries[1].screenshotPath)
    /\ entries[1].durationSeconds = Some(600)

\* the cycle in slot 1 ended in this step at one of the three skip gates
SkipStep ==
    /\ pc[1] \in {"checkIdleState", "getActiveWindow"}
    /\ pc'[1] = "idle"
    /\ logged' \in { "Skipping capture - user is idle",
                     "No active window detected", "Skipping excluded app" }

\* C30: a skipped cycle (idle, no window, excluded app) leaves every entry
\* as it is, so the open entry stays open; the back-fill of the next
\* capturing cycle gives the latest entry A the whole seconds from A's
\* timestamp to that cycle's time u, floor((u - t) / 1000), whatever was
\* skipped in between, and the entry B it inserts carries the timestamp u;
\* every entry the Sampler inserts has isIdle = false and getDailySummary
\* reports idleSeconds = 0.  Cycles do not overlap.
C30_SkippedTimeGoesToOpenEntry ==
    /\ [][ /\ SkipStep => entries' = entries
           /\ (pc[1] = "getActiveWindow" /\ pc'[1] = "captureScreenshot"
                 /\ entries # << >>) =>
                 /\ Len(entries') = Len(entries)
                 /\ entries'[Len(entries)].durationSeconds
                       = Some((now[1] - TimeOf(entries[Len(entries)]))
                                 \div 1000)
           /\ (pc[1] = "captureScreenshot" /\ Len(entries') = Len(entries) + 1)
                 =>
                 /\ TimeOf(entries'[Len(entries')]) = now[1]
                 /\ IsNull(entries'[Len(entries')].durationSeconds)
                 /\ \A k \in 1..Len(entries) :
                       entries'[k].durationSeconds = entries[k].durationSeconds
         ]_vars
    /\ [](/\ \A k \in 1..Len(entries) : ~entries[k].isIdle
          /\ getDailySummary(entries, 0).idleSeconds = 0)

\* entry A was captured, the next cycle was skipped because the user was
\* idle, and the third cycle has back-filled A with the 600 seconds from A
\* to itself
C30_Witness ==
    /\ logged = "Skipping capture - user is idle"
    /\ ticks = 3
    /\ pc[1] = "captureScreenshot"
    /\ Len(entries) = 1
    /\ now[1] - TimeOf(entries[1]) = 600800
    /\ entries[1].durationSeconds = Some(600)

====
